---- MODULE Spec2Model ----
(***************************************************************************)
(* FtpModelRegistry (backend/app/services/ftp_model_registry.py): the      *)
(* file-system backed, versioned model registry with its publish, resolve  *)
(* and promote operations, run by the threads of one process on one        *)
(* registry instance.                                                      *)
(*                                                                         *)
(* Strings that the code slugifies or pattern-matches are sequences of     *)
(* one-character strings, so that _slugify, _next_version and the version  *)
(* pattern are computed character by character.  None and the empty        *)
(* string, which the code never tells apart (it tests truthiness), are     *)
(* both the empty sequence.                                                *)
(***************************************************************************)
EXTENDS Integers, Sequences, FiniteSets, TLC

\* ------------------------------------------------------------------ bounds

\* Number of publish / promote calls started in one behaviour.
MaxCalls == 2
\* Number of publishes that a failing copy, archive or manifest write
\* interrupts in one behaviour.
MaxFaults == 1
\* Number of entries of an index handed to _next_version on its own.
MaxTokens == 3
\* Length of the names handed to _slugify on its own.
MaxNameLen == 3

\* ----------------------------------------------------------- Slug codec

None == <<>>

SeqRange(s) == {s[i] : i \in 1..Len(s)}

UpperChars == <<"A","B","C","D","E","F","G","H","I","J","K","L","M",
                "N","O","P","Q","R","S","T","U","V","W","X","Y","Z">>
LowerChars == <<"a","b","c","d","e","f","g","h","i","j","k","l","m",
                "n","o","p","q","r","s","t","u","v","w","x","y","z">>
DigitChars == <<"0","1","2","3","4","5","6","7","8","9">>
WhiteChars == {" ", "\t", "\n"}
SepChars   == {".", "-", "_"}

\* A lower() that leaves the character as it is.
KeepCase(c) == c

\* str.lower() on one character
LowerChar(c) ==
    IF \E i \in 1..26 : UpperChars[i] = c
    THEN LowerChars[CHOOSE i \in 1..26 : UpperChars[i] = c]
    ELSE c

RECURSIVE StripLeft(_, _)
StripLeft(s, chars) ==
    IF s # <<>> /\ Head(s) \in chars THEN StripLeft(Tail(s), chars) ELSE s

RECURSIVE StripRight(_, _)
StripRight(s, chars) ==
    IF s # <<>> /\ s[Len(s)] \in chars
    THEN StripRight(SubSeq(s, 1, Len(s) - 1), chars)
    ELSE s

\* str.strip(chars)
Strip(s, chars) == StripRight(StripLeft(s, chars), chars)

\* the characters the pattern [^a-z0-9_.-] (or [^a-z0-9_-]) keeps
SlugChars(allow_dot) ==
    SeqRange(LowerChars) \cup SeqRange(DigitChars) \cup {"_", "-"}
        \cup (IF allow_dot THEN {"."} ELSE {})

\* A pattern that keeps the dot whatever allow_dot says.
KeepCharDotAlways(c, allow_dot) == c \in SlugChars(TRUE)

KeepChar(c, allow_dot) == c \in SlugChars(allow_dot)

\* _slugify(text, fallback=..., allow_dot=...)
Slugify(text, fallback, allow_dot) ==
    LET stripped  == Strip(text, WhiteChars)
        candidate == [i \in 1..Len(stripped) |->
                        IF LowerChar(stripped[i]) = " " THEN "-"
                        ELSE LowerChar(stripped[i])]
        cleaned   == SelectSeq(candidate, LAMBDA c : KeepChar(c, allow_dot))
        trimmed   == Strip(cleaned, SepChars)
    IN  IF trimmed # <<>> THEN trimmed ELSE fallback

ModelSlug(model_name) == Slugify(model_name, <<"m","o","d","e","l">>, FALSE)

VersionSlug(version_name) ==
    Slugify(version_name, <<"v","0","0","0","1">>, TRUE)

\* int() of one decimal digit
DigitVal(c) == (CHOOSE i \in 1..10 : DigitChars[i] = c) - 1

IsDigit(c) == c \in SeqRange(DigitChars)

RECURSIVE DecimalValue(_)
DecimalValue(s) ==
    IF s = <<>> THEN 0
    ELSE 10 * DecimalValue(SubSeq(s, 1, Len(s) - 1)) + DigitVal(s[Len(s)])

RECURSIVE Decimal(_)
Decimal(n) ==
    IF n < 10 THEN <<DigitChars[n + 1]>>
    ELSE Decimal(n \div 10) \o <<DigitChars[(n % 10) + 1]>>

RECURSIVE ZeroPad(_, _)
ZeroPad(s, width) == IF Len(s) >= width THEN s ELSE ZeroPad(<<"0">> \o s, width)

\* f"v{n:d}": the version number without its zero padding.
FormatVersionUnpadded(n) == <<"v">> \o Decimal(n)

\* f"v{n:04d}"
AutoWidth == 4
FormatVersion(n) == <<"v">> \o ZeroPad(Decimal(n), AutoWidth)

\* re.match(r"^v(\d+)$", version_name)
MatchesAuto(tok) ==
    /\ Len(tok) >= 2
    /\ tok[1] = "v"
    /\ \A i \in 2..Len(tok) : IsDigit(tok[i])

AutoNumber(tok) == DecimalValue(Tail(tok))

RECURSIVE MaxOf(_)
MaxOf(S) ==
    IF S = {} THEN 0
    ELSE LET x == CHOOSE y \in S : TRUE
             m == MaxOf(S \ {x})
         IN  IF x > m THEN x ELSE m

\* ------------------------------------------------------------ the inputs

Stages == {"dev", "release"}

\* The model names the callers pass: a name, the same name in another
\* case and with blanks around it, and the name of another model.
PetName   == <<"P","e","t"," ","C">>
PetAlias  == <<" ","p","E","T"," ","c">>
OtherName == <<"Z">>
ModelNames == {PetName, PetAlias, OtherName}

\* A requested version; None asks for an auto-allocated one.
ReqR1 == <<"R","1">>

LatestWord == <<"l","a","t","e","s","t">>

\* Files: a directory part, a file name (stem and extension), a size and
\* the shape torch.load would give ("unknown": the caller's file holds
\* whatever the caller saved, see LoadedShapes).
File(dir, stem, ext, bytes, shape) ==
    [dir |-> dir, stem |-> stem, ext |-> ext, bytes |-> bytes, shape |-> shape]

ModelPt    == File("", "model", "pt", 10, "bare")
LabelsJson == File("meta", "labels", "json", 20, "none")
BestPth    == File("", "best_checkpoint", "pth", 30, "unknown")
BestPt     == File("", "best_checkpoint", "pt", 40, "unknown")

\* Local source paths a caller can name: one that does not exist, a
\* directory (model.pt and meta/labels.json), a single file and a
\* directory without a checkpoint (meta/labels.json).
LocalSources == {"missing", "dirA", "fileB", "dirC"}

LocalFiles(id) ==
    CASE id = "dirA"  -> {ModelPt, LabelsJson}
      [] id = "fileB" -> {BestPth}
      [] id = "dirC"  -> {LabelsJson}
      [] id = "filePt" -> {BestPt}
      [] OTHER        -> {}

LocalSource(id) == [kind |-> "local", id |-> id,
                    stage |-> "", slug |-> <<>>, version |-> <<>>]
PayloadSource(stage, slug, version) ==
    [kind |-> "payload", id |-> "",
     stage |-> stage, slug |-> slug, version |-> version]
NoSource == LocalSource("")

Threads == {"t1", "t2"}
ThreadNo(t) == IF t = "t1" THEN 1 ELSE 2

Slugs == {ModelSlug(n) : n \in ModelNames}
Keys  == Stages \X Slugs

\* ------------------------------------------------------------- the state

VARIABLES
    indexFile,   \* Keys -> index.json: absent, partial (opened, not dumped) or ok
    latestTxt,   \* Keys -> the LATEST file
    latestJson,  \* Keys -> the LATEST.json file
    vdirs,       \* Keys -> (version token -> the version directory)
    lock,        \* self._lock: "free" or the thread holding it
    pc,          \* Threads -> where the thread is in publish_from_local
    loc,         \* Threads -> the call's arguments and local variables
    res,         \* what the call that ended last returned or raised
    succ,        \* Keys -> publishes that returned normally, by kind of version
    calls,       \* calls started
    faults,      \* publishes interrupted by a failing write
    hist         \* Keys -> the index documents completely written, in order

vars == <<indexFile, latestTxt, latestJson, vdirs, lock, pc, loc, res,
          succ, calls, faults, hist>>

\* The variables that only record what happened, and the counters that
\* bound a behaviour.
histVars  == <<succ, hist>>
boundVars == <<calls, faults>>

fsVars == <<indexFile, latestTxt, latestJson, vdirs>>

\* Source metadata of an entry (the fields of the "promotion" tag; a local
\* publish has type "local" and the others empty).
LocalMeta == [type |-> "local", fromStage |-> "", sourceVersion |-> <<>>,
              sourceBundle |-> <<>>]
PromotionMeta(from_stage, source_version, source_bundle) ==
    [type |-> "promotion", fromStage |-> from_stage,
     sourceVersion |-> source_version, sourceBundle |-> source_bundle]

\* _build_ftp_paths(...)["bundle"]: /<stage>/<slug>/versions/<version>/
\* bundle.tar.gz, as its parts.
BundlePath(stage, model_slug, version) ==
    <<stage, model_slug, <<"versions">>, version, <<"bundle.tar.gz">> >>

\* _default_index
DefaultIndex(model_name) ==
    [modelName |-> model_name, latest |-> None, versions |-> <<>>]

AbsentIndex  == [st |-> "absent",  doc |-> DefaultIndex(<<>>)]
PartialIndex == [st |-> "partial", doc |-> DefaultIndex(<<>>)]
OkIndex(doc) == [st |-> "ok", doc |-> doc]

AbsentPtr  == [st |-> "absent",  latest |-> None, entry |-> <<>>]
\* A pointer file opened for writing and not yet written: it is empty.
PartialPtr == [st |-> "partial", latest |-> None, entry |-> <<>>]
OkPtr(latest, entry) == [st |-> "ok", latest |-> latest, entry |-> entry]

NoDirs == [tok \in {} |-> 0]

NoDoc == [version |-> <<>>, files |-> {}, source |-> LocalMeta, std |-> FALSE]
AbsentFile  == [st |-> "absent",  files |-> {}, doc |-> NoDoc]
PartialFile == [st |-> "partial", files |-> {}, doc |-> NoDoc]

\* What the model directory held when a publish took the lock (kept for
\* the statements about what a failed publish leaves behind).
Snapshot(k) == [index |-> indexFile[k], txt |-> latestTxt[k],
                json |-> latestJson[k], dirs |-> vdirs[k]]
NoSnapshot == [index |-> AbsentIndex, txt |-> AbsentPtr, json |-> AbsentPtr,
               dirs |-> NoDirs]

NoLoc == [op |-> "", name |-> <<>>, stage |-> "", key |-> <<>>, src |-> NoSource,
          version |-> None, set_latest |-> FALSE, convert |-> FALSE,
          index |-> DefaultIndex(<<>>), resolved |-> <<>>, files |-> {},
          std |-> FALSE, meta |-> LocalMeta, entered |-> NoSnapshot,
          artifact_path |-> <<>>, tried |-> <<>>]

NoRes == [op |-> "", status |-> "none", key |-> <<>>, version |-> <<>>]

\* A fresh version directory holding only its payload directory.
VersionDir(payload) ==
    [payload |-> payload, bundle |-> AbsentFile, manifest |-> AbsentFile]

\* -------------------------------------------------- reading the registry

\* (_model_slug of each of the callers' names, computed once.)
SlugOf == [n \in ModelNames |-> ModelSlug(n)]

\* A model directory that leaves the stage out of the path.
KeyOfOneStage(stage, model_name) == <<"dev", SlugOf[model_name]>>

\* _model_dir(stage, model_name): <root>/<stage>/<model slug>.
KeyOf(stage, model_name) == <<stage, SlugOf[model_name]>>

\* _read_index: the default index when the file is missing, the document
\* otherwise; json.load raises on a file that was opened and not yet dumped.
IndexReadable(k) == indexFile[k].st # "partial"

ReadIndexIn(files, stage, model_name) ==
    LET f == files[KeyOf(stage, model_name)]
    IN  IF f.st = "absent" THEN DefaultIndex(model_name) ELSE f.doc

ReadIndex(stage, model_name) == ReadIndexIn(indexFile, stage, model_name)

VersionsOf(index) == {index.versions[i].version : i \in 1..Len(index.versions)}

\* next(item for item in versions if item["version"] == version, None):
\* the empty sequence for None, a one-element sequence otherwise.
FindEntry(index, version) ==
    LET hits == SelectSeq(index.versions, LAMBDA e : e.version = version)
    IN  IF hits = <<>> THEN <<>> ELSE <<Head(hits)>>

\* An allocation that counts the entries instead.
NextVersionByCount(index) == FormatVersion(Len(index.versions) + 1)

\* _next_version
NextVersion(index) ==
    FormatVersion(
        MaxOf({AutoNumber(v) : v \in {w \in VersionsOf(index) : MatchesAuto(w)}}) + 1)

\* _resolve_version
ResolveVersion(index, requested_version) ==
    IF requested_version # None
    THEN VersionSlug(requested_version)
    ELSE NextVersion(index)

\* get_model and resolve, as one read of index.json.
Failure(status) == [status |-> status, version |-> <<>>, entry |-> <<>>,
                    latest |-> None]

\* A resolve that accepts a version whose directory exists.
ResolveInByDirectory(files, stage, model_name, version) ==
    LET index == ReadIndexIn(files, stage, model_name)
        resolved_version ==
            IF version \in {None, LatestWord} THEN index.latest
            ELSE VersionSlug(version)
        entry == FindEntry(index, resolved_version)
    IN  IF files[KeyOf(stage, model_name)].st = "partial"
        THEN Failure("IndexCorrupt")
        ELSE IF index.versions = <<>> THEN Failure("NoVersionsFound")
        ELSE IF resolved_version = None THEN Failure("NoLatestVersion")
        ELSE IF entry = <<>>
                /\ resolved_version \notin DOMAIN vdirs[KeyOf(stage, model_name)]
        THEN Failure("VersionNotFound")
        ELSE [status |-> "ok", version |-> resolved_version, entry |-> entry,
              latest |-> index.latest]

ResolveIn(files, stage, model_name, version) ==
    LET index == ReadIndexIn(files, stage, model_name)
        resolved_version ==
            IF version \in {None, LatestWord} THEN index.latest
            ELSE VersionSlug(version)
        entry == FindEntry(index, resolved_version)
    IN  IF files[KeyOf(stage, model_name)].st = "partial"
        THEN Failure("IndexCorrupt")
        ELSE IF index.versions = <<>> THEN Failure("NoVersionsFound")
        ELSE IF resolved_version = None THEN Failure("NoLatestVersion")
        ELSE IF entry = <<>> THEN Failure("VersionNotFound")
        ELSE [status |-> "ok", version |-> resolved_version, entry |-> entry,
              latest |-> index.latest]

Resolve(stage, model_name, version) ==
    ResolveIn(indexFile, stage, model_name, version)

\* A get_model that returns whatever it read.
GetModelInUnchecked(files, stage, model_name) ==
    [status |-> "ok", index |-> <<ReadIndexIn(files, stage, model_name)>>]

\* get_model: the index, or FileNotFoundError when it has no versions.
GetModelIn(files, stage, model_name) ==
    LET index == ReadIndexIn(files, stage, model_name)
    IN  IF files[KeyOf(stage, model_name)].st = "partial"
        THEN [status |-> "IndexCorrupt", index |-> <<>>]
        ELSE IF index.versions = <<>>
        THEN [status |-> "NoVersionsFound", index |-> <<>>]
        ELSE [status |-> "ok", index |-> <<index>>]

\* A model directory exists once a publish created a version directory in
\* it (payload_dir.mkdir(parents=True)) or wrote its index.
ModelDirExists(files, dirs, k) == files[k].st # "absent" \/ DOMAIN dirs[k] # {}

\* One entry of list_models' result.
ModelSummary(stage, slug, index) ==
    [modelName |-> index.modelName, stage |-> stage, latest |-> index.latest,
     versionCount |-> Len(index.versions), slug |-> slug]

\* A list_models that does not skip the directories without index.json.
ListModelsInAllDirs(files, dirs, stage) ==
    LET listed == {sl \in Slugs : ModelDirExists(files, dirs, <<stage, sl>>)}
    IN  IF \E sl \in listed : files[<<stage, sl>>].st = "partial"
        THEN [status |-> "IndexCorrupt", models |-> {}]
        ELSE [status |-> "ok",
              models |-> {ModelSummary(stage, sl, files[<<stage, sl>>].doc) :
                            sl \in listed}]

\* list_models: a summary for every directory of the stage that holds an
\* index.json; json.load raises on one that is opened and not yet dumped.
\* (The result is sorted by directory name; it is kept as a set here.)
ListModelsIn(files, dirs, stage) ==
    LET listed == {sl \in Slugs : /\ ModelDirExists(files, dirs, <<stage, sl>>)
                                  /\ files[<<stage, sl>>].st # "absent"}
    IN  IF \E sl \in listed : files[<<stage, sl>>].st = "partial"
        THEN [status |-> "IndexCorrupt", models |-> {}]
        ELSE [status |-> "ok",
              models |-> {ModelSummary(stage, sl, files[<<stage, sl>>].doc) :
                            sl \in listed}]

\* A publish that does not check its source path.
SourceAlwaysExists(src) == TRUE

\* Path(...).exists() of a source path.
SourceExists(src) ==
    IF src.kind = "local" THEN src.id # "missing"
    ELSE src.version \in DOMAIN vdirs[<<src.stage, src.slug>>]

\* A copy that does not descend into the source's sub-directories.
SourceFilesTopLevel(src) ==
    IF src.kind = "local" THEN LocalFiles(src.id)
    ELSE {f \in vdirs[<<src.stage, src.slug>>][src.version].payload : f.dir = ""}

\* The regular files under a source path, as the copy finds them.
SourceFiles(src) ==
    IF src.kind = "local" THEN LocalFiles(src.id)
    ELSE vdirs[<<src.stage, src.slug>>][src.version].payload

\* _copy_payload into a payload directory that holds `present`: a file
\* copied over an existing path replaces it.
SamePath(f, g) == f.dir = g.dir /\ f.stem = g.stem /\ f.ext = g.ext

CopyPayload(present, copied) ==
    {f \in present : ~\E g \in copied : SamePath(f, g)} \cup copied

\* --------------------------------------------------- Checkpoint normalizer

PreferredNames == << <<"best_checkpoint", "pth">>, <<"best_checkpoint", "pt">>,
                     <<"model", "pth">>, <<"model", "pt">> >>
GlobExtensions == <<"pth", "pt">>

Named(payload, stem, ext) == {f \in payload : f.stem = stem /\ f.ext = ext}
WithExt(payload, ext) == {f \in payload : f.ext = ext}

\* A search that takes any file of the payload.
DiscoverAnyFile(payload) == payload

\* _discover_torch_payload_file: the files the search can return (the first
\* preferred name that is present, else the first extension that is); the
\* empty set is None.  The inputs hold at most one candidate per name and
\* extension, so the order within one rglob result does not matter.
DiscoverTorchPayloadFile(payload) ==
    LET hitsP == {i \in 1..Len(PreferredNames) :
                    Named(payload, PreferredNames[i][1], PreferredNames[i][2]) # {}}
        hitsG == {i \in 1..Len(GlobExtensions) :
                    WithExt(payload, GlobExtensions[i]) # {}}
        first(S) == CHOOSE i \in S : \A j \in S : i <= j
    IN  IF hitsP # {}
        THEN Named(payload, PreferredNames[first(hitsP)][1],
                            PreferredNames[first(hitsP)][2])
        ELSE IF hitsG # {} THEN WithExt(payload, GlobExtensions[first(hitsG)])
        ELSE {}

\* _build_torch_standard_payload accepts an nn.Module, a dict carrying
\* model_state_dict and a bare state dict, and raises ValueError otherwise.
Standardizable(shape) == shape \in {"module", "wrapped", "bare"}

\* torch.load(source_file): what a file of unknown content can hold, a
\* checkpoint dict or something that is no checkpoint (a list).
LoadedShapes(f) == IF f.shape = "unknown" THEN {"wrapped", "list"} ELSE {f.shape}

StandardFile == File("", "model-standard", "pt", 40, "wrapped")

\* ------------------------------------------------------------- publishing

\* _build_version_entry
VersionEntry(version, meta, std) ==
    [version |-> version, source |-> meta, std |-> std]

\* _build_manifest
Manifest(version, meta, files, std) ==
    [version |-> version, files |-> files, source |-> meta, std |-> std]

\* _walk_file_entries: relative path and size of every regular file.
WalkFileEntries(payload) ==
    {[dir |-> f.dir, stem |-> f.stem, ext |-> f.ext, bytes |-> f.bytes] :
        f \in payload}

\* Variants of the definitions below, each changed the way a slip in the
\* code would change it; the statements at the end are checked against them.
SetsLatestOnlyIfAsked(set_latest, index) == set_latest
SetsLatestAlways(set_latest, index) == TRUE
NewLatestAsRequested(requested_version, resolved_version) == requested_version
VersionDirNeverExists(dirs, version) == FALSE
LockAlwaysFree == TRUE

\* Lines 428-429: whether the publish moves the latest pointer.
SetsLatest(set_latest, index) == set_latest \/ index.latest = None

\* Line 429: the token the latest pointer is set to.
NewLatest(requested_version, resolved_version) == resolved_version

PrependEntry(index, requested_version, resolved_version, meta, std, set_latest) ==
    [index EXCEPT
        !.versions = <<VersionEntry(resolved_version, meta, std)>> \o index.versions,
        !.latest = IF SetsLatest(set_latest, index)
                   THEN NewLatest(requested_version, resolved_version)
                   ELSE index.latest]

\* Lines 414-429: the in-memory index with the new entry appended.
AppendEntry(index, requested_version, resolved_version, meta, std, set_latest) ==
    [index EXCEPT
        !.versions = Append(index.versions,
                            VersionEntry(resolved_version, meta, std)),
        !.latest = IF SetsLatest(set_latest, index)
                   THEN NewLatest(requested_version, resolved_version)
                   ELSE index.latest]

\* Line 383: version_dir.exists()
VersionDirExists(dirs, version) == version \in DOMAIN dirs

\* `with self._lock`: the lock can be taken.
LockFree == lock = "free"

\* _model_dir(stage, model_name), computed when the call starts.
Key(t) == loc[t].key

\* The index a publish persists: what it read, with its entry appended.
NewIndex(t) ==
    AppendEntry(loc[t].index, loc[t].version, loc[t].resolved, loc[t].meta,
                loc[t].std, loc[t].set_latest)

\* A call ends: the thread's locals go, the result stays.
Finish(t, op, key, status, version) ==
    /\ pc' = [pc EXCEPT ![t] = "idle"]
    /\ loc' = [loc EXCEPT ![t] = NoLoc]
    /\ res' = [op |-> op, status |-> status, key |-> key, version |-> version]

\* An exception that leaves the lock held.
RaiseHoldingLock(t, status) ==
    /\ UNCHANGED lock
    /\ Finish(t, loc[t].op, Key(t), status, loc[t].resolved)

\* An exception leaves the `with` block: the lock is released.
Raise(t, status) ==
    /\ lock' = "free"
    /\ Finish(t, loc[t].op, Key(t), status, loc[t].resolved)

\* Calls go to the first idle thread (the threads are interchangeable).
Takes(t) ==
    /\ pc[t] = "idle"
    /\ \A u \in Threads : pc[u] = "idle" => ThreadNo(t) <= ThreadNo(u)

\* publish_from_local, lines 374-376: the source check, before the lock.
PublishCall(t, model_name, stage, src_id, version, set_latest, convert) ==
    /\ Takes(t)
    /\ calls < MaxCalls
    /\ calls' = calls + 1
    /\ IF SourceExists(LocalSource(src_id))
       THEN /\ pc' = [pc EXCEPT ![t] = "lock"]
            /\ loc' = [loc EXCEPT ![t] =
                    [NoLoc EXCEPT !.op = "publish", !.name = model_name,
                                  !.stage = stage,
                                  !.key = KeyOf(stage, model_name),
                                  !.src = LocalSource(src_id),
                                  !.version = version, !.set_latest = set_latest,
                                  !.convert = convert]]
            /\ UNCHANGED res
       ELSE Finish(t, "publish", KeyOf(stage, model_name), "SourceNotFound", <<>>)
    /\ UNCHANGED <<fsVars, lock, histVars, faults>>

\* Line 378: entering the critical section.
Acquire(t) ==
    /\ pc[t] = "lock"
    /\ LockFree
    /\ lock' = t
    /\ pc' = [pc EXCEPT ![t] = "read"]
    /\ loc' = [loc EXCEPT ![t].entered = Snapshot(Key(t))]
    /\ UNCHANGED <<fsVars, res, histVars, boundVars>>

\* Lines 379-386: read the index, resolve the version, refuse an existing
\* version directory.
ReadAndResolve(t) ==
    /\ pc[t] = "read"
    /\ LET index == ReadIndex(loc[t].stage, loc[t].name)
           resolved_version == ResolveVersion(index, loc[t].version)
       IN  IF ~IndexReadable(Key(t))
           THEN Raise(t, "IndexCorrupt")
           ELSE IF VersionDirExists(vdirs[Key(t)], resolved_version)
           THEN /\ lock' = "free"
                /\ Finish(t, loc[t].op, Key(t), "VersionAlreadyExists",
                          resolved_version)
           ELSE /\ loc' = [loc EXCEPT ![t].index = index,
                                      ![t].resolved = resolved_version]
                /\ pc' = [pc EXCEPT ![t] = "copy"]
                /\ UNCHANGED <<lock, res>>
    /\ UNCHANGED <<fsVars, histVars, boundVars>>

\* The version directory after _copy_payload (lines 388-389).
CopiedDir(t) ==
    LET dirs == vdirs[Key(t)]
        v    == loc[t].resolved
    IN  IF v \in DOMAIN dirs
        THEN [dirs[v] EXCEPT !.payload = CopyPayload(@, SourceFiles(loc[t].src))]
        ELSE VersionDir(SourceFiles(loc[t].src))

PutDir(t, dir) ==
    vdirs' = [vdirs EXCEPT ![Key(t)] = (loc[t].resolved :> dir) @@ @]

Copy(t) ==
    /\ pc[t] = "copy"
    /\ PutDir(t, CopiedDir(t))
    /\ pc' = [pc EXCEPT ![t] = "norm"]
    /\ UNCHANGED <<indexFile, latestTxt, latestJson, lock, loc, res,
                   histVars, boundVars>>

ThisDir(t) == vdirs[Key(t)][loc[t].resolved]

\* Lines 390-398: _maybe_generate_torch_standard.
Normalize(t) ==
    /\ pc[t] = "norm"
    /\ IF ~loc[t].convert
       THEN /\ pc' = [pc EXCEPT ![t] = "bundle"]
            /\ UNCHANGED <<vdirs, lock, loc, res>>
       ELSE LET found == DiscoverTorchPayloadFile(ThisDir(t).payload)
            IN  IF found = {}
                THEN Raise(t, "CheckpointNotFound") /\ UNCHANGED vdirs
                ELSE \E source_file \in found : \E loaded \in LoadedShapes(source_file) :
                       IF ~Standardizable(loaded)
                       THEN Raise(t, "UnsupportedCheckpointFormat")
                            /\ UNCHANGED vdirs
                       ELSE /\ PutDir(t, [ThisDir(t) EXCEPT
                                   !.payload = CopyPayload(@, {StandardFile})])
                            /\ loc' = [loc EXCEPT ![t].std = TRUE]
                            /\ pc' = [pc EXCEPT ![t] = "bundle"]
                            /\ UNCHANGED <<lock, res>>
    /\ UNCHANGED <<indexFile, latestTxt, latestJson, histVars, boundVars>>

\* A listing that keeps what _copy_payload returned (line 389).
ListedFilesAtCopy(t) == WalkFileEntries(SourceFiles(loc[t].src))

\* Line 399: the listing of the payload directory that goes into the
\* manifest, taken after the conversion.
ListedFiles(t) == WalkFileEntries(ThisDir(t).payload)

\* Lines 399-400: list the payload, archive it (tar.add of the payload
\* directory under the name "payload").
Bundle(t) ==
    /\ pc[t] = "bundle"
    /\ PutDir(t, [ThisDir(t) EXCEPT
            !.bundle = [st |-> "ok", files |-> WalkFileEntries(ThisDir(t).payload),
                        doc |-> NoDoc]])
    /\ loc' = [loc EXCEPT ![t].files = ListedFiles(t)]
    /\ pc' = [pc EXCEPT ![t] = "manifest"]
    /\ UNCHANGED <<indexFile, latestTxt, latestJson, lock, res,
                   histVars, boundVars>>

\* Lines 401-412: build and write the manifest.
WriteManifest(t) ==
    /\ pc[t] = "manifest"
    /\ PutDir(t, [ThisDir(t) EXCEPT
            !.manifest = [st |-> "ok", files |-> {},
                          doc |-> Manifest(loc[t].resolved, loc[t].meta,
                                           loc[t].files, loc[t].std)]])
    /\ pc' = [pc EXCEPT ![t] = "index"]
    /\ UNCHANGED <<indexFile, latestTxt, latestJson, lock, loc, res,
                   histVars, boundVars>>

\* Lines 414-429 and _write_index lines 92-97: the entry is appended in
\* memory and index.json is opened for writing, which truncates it.
OpenIndex(t) ==
    /\ pc[t] = "index"
    /\ indexFile' = [indexFile EXCEPT ![Key(t)] = PartialIndex]
    /\ pc' = [pc EXCEPT ![t] = "dump"]
    /\ UNCHANGED <<latestTxt, latestJson, vdirs, lock, loc, res,
                   histVars, boundVars>>

\* _write_index line 98: json.dump and close.
DumpIndex(t) ==
    /\ pc[t] = "dump"
    /\ indexFile' = [indexFile EXCEPT ![Key(t)] = OkIndex(NewIndex(t))]
    /\ hist' = [hist EXCEPT ![Key(t)] = Append(@, NewIndex(t))]
    /\ pc' = [pc EXCEPT ![t] = "latest"]
    /\ UNCHANGED <<latestTxt, latestJson, vdirs, lock, loc, res, succ,
                   boundVars>>

\* What _write_index leaves in LATEST (lines 104-105, 120).
LatestTxtOf(index) ==
    IF index.latest # None THEN OkPtr(index.latest, <<>>) ELSE AbsentPtr

\* A mirror that carries the entry just appended.
LatestJsonOfLastEntry(index) ==
    IF index.latest # None
    THEN OkPtr(index.latest, <<index.versions[Len(index.versions)]>>)
    ELSE AbsentPtr

\* What _write_index leaves in LATEST.json (lines 107-118, 121).
LatestJsonOf(index) ==
    IF index.latest # None
    THEN OkPtr(index.latest, FindEntry(index, index.latest))
    ELSE AbsentPtr

\* _write_index lines 100-105 and 120: write_text opens LATEST for
\* writing, which truncates it (or the file is unlinked).
OpenLatest(t) ==
    /\ pc[t] = "latest"
    /\ latestTxt' = [latestTxt EXCEPT ![Key(t)] =
            IF NewIndex(t).latest # None THEN PartialPtr ELSE AbsentPtr]
    /\ pc' = [pc EXCEPT ![t] = "ptr"]
    /\ UNCHANGED <<indexFile, latestJson, vdirs, lock, loc, res,
                   histVars, boundVars>>

\* _write_index line 105: the token is written and LATEST closed.
WriteLatest(t) ==
    /\ pc[t] = "ptr"
    /\ latestTxt' = [latestTxt EXCEPT ![Key(t)] = LatestTxtOf(NewIndex(t))]
    /\ pc' = [pc EXCEPT ![t] = "mirror"]
    /\ UNCHANGED <<indexFile, latestJson, vdirs, lock, loc, res,
                   histVars, boundVars>>

\* _write_index lines 107-118 and 121: LATEST.json; then the `with` block
\* ends, the lock is released and publish_from_local returns (433-451).
WriteMirrorAndReturn(t) ==
    /\ pc[t] = "mirror"
    /\ latestJson' = [latestJson EXCEPT ![Key(t)] = LatestJsonOf(NewIndex(t))]
    /\ lock' = "free"
    /\ succ' = [succ EXCEPT ![Key(t)] =
            IF loc[t].version = None THEN [@ EXCEPT !.auto = @ + 1]
            ELSE [@ EXCEPT !.explicit = @ + 1]]
    /\ Finish(t, loc[t].op, Key(t), "ok", loc[t].resolved)
    /\ UNCHANGED <<indexFile, latestTxt, vdirs, hist, boundVars>>

\* ------------------------------------------- failures of steps 4 to 8

\* A step between the version check and the index write raises (an
\* unreadable source file, an archive or a manifest that cannot be
\* written or serialised): the file being written is left partial and the
\* exception leaves the `with` block.
CanFault(t, at) == pc[t] = at /\ faults < MaxFaults

Faulted(t) ==
    /\ faults' = faults + 1
    /\ Raise(t, "WriteFailed")
    /\ UNCHANGED <<indexFile, latestTxt, latestJson, histVars, calls>>

\* _copy_payload stops after some of the files (lines 155-165).
FailCopy(t) ==
    /\ CanFault(t, "copy")
    /\ \E copied \in SUBSET SourceFiles(loc[t].src) :
          /\ copied # SourceFiles(loc[t].src)
          /\ PutDir(t, VersionDir(copied))
    /\ Faulted(t)

\* tarfile stops inside _bundle_payload (lines 175-177).
FailBundle(t) ==
    /\ CanFault(t, "bundle")
    /\ PutDir(t, [ThisDir(t) EXCEPT !.bundle = PartialFile])
    /\ Faulted(t)

\* json.dump stops inside _write_version_manifest (lines 170-172).
FailManifest(t) ==
    /\ CanFault(t, "manifest")
    /\ PutDir(t, [ThisDir(t) EXCEPT !.manifest = PartialFile])
    /\ Faulted(t)

\* -------------------------------------------------------------- promote

NeverSameStage(from_stage, to_stage) == FALSE

\* Line 592: the stage check.
SameStage(from_stage, to_stage) == from_stage = to_stage

\* promote, lines 592-617, up to the source check of publish_from_local
\* (374-376): the stage check, resolve on the source stage, the payload
\* directory as the new source.
PromoteCall(t, model_name, from_stage, to_stage, version, target_version, set_latest) ==
    /\ Takes(t)
    /\ calls < MaxCalls
    /\ calls' = calls + 1
    /\ LET source == Resolve(from_stage, model_name, version)
           src    == PayloadSource(from_stage, ModelSlug(model_name),
                                   source.version)
           dest   == KeyOf(to_stage, model_name)
       IN  IF SameStage(from_stage, to_stage)
           THEN Finish(t, "promote", dest, "SameStagePromotion", <<>>)
           ELSE IF source.status # "ok"
           THEN Finish(t, "promote", dest, source.status, <<>>)
           ELSE IF ~SourceExists(src)
           THEN Finish(t, "promote", dest, "SourceNotFound", <<>>)
           ELSE /\ pc' = [pc EXCEPT ![t] = "lock"]
                /\ loc' = [loc EXCEPT ![t] =
                      [NoLoc EXCEPT !.op = "promote", !.name = model_name,
                                    !.stage = to_stage, !.key = dest,
                                    !.src = src,
                                    !.version = target_version,
                                    !.set_latest = set_latest,
                                    !.meta = PromotionMeta(from_stage,
                                        source.version,
                                        BundlePath(from_stage,
                                                   ModelSlug(model_name),
                                                   source.version))]]
                /\ UNCHANGED res
    /\ UNCHANGED <<fsVars, lock, histVars, faults>>

\* ------------------------------------------------------ the specification

\* One step of a publish in which no write fails (the 11 steps).
Work(t) ==
    \/ Acquire(t)
    \/ ReadAndResolve(t)
    \/ Copy(t)
    \/ Normalize(t)
    \/ Bundle(t)
    \/ WriteManifest(t)
    \/ OpenIndex(t)
    \/ DumpIndex(t)
    \/ OpenLatest(t)
    \/ WriteLatest(t)
    \/ WriteMirrorAndReturn(t)

\* One step of a call under way: the lock, the steps of publish_from_local
\* and the failures of steps 4 to 8.
Step(t) ==
    \/ Acquire(t)
    \/ ReadAndResolve(t)
    \/ Copy(t)
    \/ Normalize(t)
    \/ Bundle(t)
    \/ WriteManifest(t)
    \/ OpenIndex(t)
    \/ DumpIndex(t)
    \/ OpenLatest(t)
    \/ WriteLatest(t)
    \/ WriteMirrorAndReturn(t)
    \/ FailCopy(t)
    \/ FailBundle(t)
    \/ FailManifest(t)

\* The registry right after construction (__init__): the two stage
\* directories exist and are empty.
EmptyRegistry ==
    /\ indexFile = [k \in Keys |-> AbsentIndex]
    /\ latestTxt = [k \in Keys |-> AbsentPtr]
    /\ latestJson = [k \in Keys |-> AbsentPtr]
    /\ vdirs = [k \in Keys |-> NoDirs]
    /\ succ = [k \in Keys |-> [auto |-> 0, explicit |-> 0]]
    /\ hist = [k \in Keys |-> <<>>]

\* The registry after one publish of the directory source to dev with no
\* explicit version: the state PublishCall and the steps above lead to
\* from the empty registry.
SeedKey   == KeyOf("dev", PetName)
SeedIndex == AppendEntry(DefaultIndex(PetName), None, FormatVersion(1),
                         LocalMeta, FALSE, TRUE)
SeedDir ==
    [payload  |-> LocalFiles("dirA"),
     bundle   |-> [st |-> "ok", files |-> WalkFileEntries(LocalFiles("dirA")),
                   doc |-> NoDoc],
     manifest |-> [st |-> "ok", files |-> {},
                   doc |-> Manifest(FormatVersion(1), LocalMeta,
                                    WalkFileEntries(LocalFiles("dirA")), FALSE)]]

SeededRegistry ==
    /\ indexFile = [k \in Keys |->
            IF k = SeedKey THEN OkIndex(SeedIndex) ELSE AbsentIndex]
    /\ latestTxt = [k \in Keys |->
            IF k = SeedKey THEN OkPtr(FormatVersion(1), <<>>) ELSE AbsentPtr]
    /\ latestJson = [k \in Keys |->
            IF k = SeedKey
            THEN OkPtr(FormatVersion(1), FindEntry(SeedIndex, FormatVersion(1)))
            ELSE AbsentPtr]
    /\ vdirs = [k \in Keys |->
            IF k = SeedKey THEN (FormatVersion(1) :> SeedDir) ELSE NoDirs]
    /\ succ = [k \in Keys |->
            IF k = SeedKey THEN [auto |-> 1, explicit |-> 0]
            ELSE [auto |-> 0, explicit |-> 0]]
    /\ hist = [k \in Keys |-> IF k = SeedKey THEN <<SeedIndex>> ELSE <<>>]

Idle ==
    /\ lock = "free"
    /\ pc = [t \in Threads |-> "idle"]
    /\ loc = [t \in Threads |-> NoLoc]
    /\ res = NoRes
    /\ calls = 0
    /\ faults = 0

Init == Idle /\ (EmptyRegistry \/ SeededRegistry)

\* The calls of Spec: local publishes to either stage, auto-allocated from
\* the directory source, and with an explicit version and the conversion to
\* the standard checkpoint from the file source,
\* and promotions of a stage's latest, with an auto-allocated target, into
\* the other stage or (refused) into the same one.
SpecVersions   == {None, ReqR1}
SpecSource(v)  == IF v = None THEN "dirA" ELSE "fileB"
SpecConvert(v) == v # None

Next ==
    \/ \E t \in Threads, s \in Stages, v \in SpecVersions, sl \in BOOLEAN :
          PublishCall(t, PetName, s, SpecSource(v), v, sl, SpecConvert(v))
    \/ \E t \in Threads, fs \in Stages, ts \in Stages :
          PromoteCall(t, PetName, fs, ts, LatestWord, None, TRUE)
    \/ \E t \in Threads : Step(t)

Spec == Init /\ [][Next]_vars

\* ------------------------------------------------------------ statements

IsPrefix(s, t) == Len(s) <= Len(t) /\ SubSeq(t, 1, Len(s)) = s

TotalSucc(k) == succ[k].auto + succ[k].explicit

\* A publish to k has persisted its index entry and has not returned yet.
Committing(k) == \E t \in Threads : loc[t].key = k /\ pc[t] \in {"latest", "ptr", "mirror"}

Quiet == \A t \in Threads : pc[t] = "idle"

\* A version directory with a complete archive and a complete manifest.
CompleteDir(k, version) ==
    /\ version \in DOMAIN vdirs[k]
    /\ vdirs[k][version].bundle.st = "ok"
    /\ vdirs[k][version].manifest.st = "ok"
    /\ vdirs[k][version].manifest.doc.version = version

\* C1: whenever index.json of a (stage, model) is a complete document and
\* its latest is not null, latest is the version of one of its entries.
C1_LatestIsAnEntry ==
    \A k \in Keys :
        (indexFile[k].st = "ok" /\ indexFile[k].doc.latest # None)
            => indexFile[k].doc.latest \in VersionsOf(indexFile[k].doc)

\* C1 witness: after a publish was interrupted, an index with two entries
\* whose latest is still the first.
C1_Witness ==
    \E k \in Keys :
        /\ indexFile[k].st = "ok"
        /\ Len(indexFile[k].doc.versions) >= 2
        /\ indexFile[k].doc.latest = indexFile[k].doc.versions[1].version
        /\ faults >= 1

\* C2: while only publishes without an explicit version have succeeded for
\* a (stage, model), and none is between persisting its entry and
\* returning, the index holds exactly the tokens v0001 .. vN, one entry
\* each, N being the number of publishes that returned normally.
C2_AutoTokensDense ==
    \A k \in Keys :
        (indexFile[k].st # "partial" /\ succ[k].explicit = 0 /\ ~Committing(k))
            => /\ VersionsOf(indexFile[k].doc)
                    = {FormatVersion(i) : i \in 1..succ[k].auto}
               /\ Len(indexFile[k].doc.versions) = succ[k].auto

\* C2 witness: the second thread, whose call started while the first
\* thread's publish to the same model was under way, has been allocated
\* v0003 after two publishes returned.
C2_Witness ==
    /\ pc["t2"] = "copy"
    /\ loc["t2"].version = None
    /\ loc["t2"].resolved = FormatVersion(3)
    /\ succ[loc["t2"].key] = [auto |-> 2, explicit |-> 0]

\* C3: at every instant every entry of a complete index.json has its
\* version directory with bundle.tar.gz and manifest.json completely
\* written.
C3_IndexedVersionsComplete ==
    \A k \in Keys :
        indexFile[k].st = "ok"
            => \A v \in VersionsOf(indexFile[k].doc) : CompleteDir(k, v)

\* C3 witness: an index with an entry, next to a version directory of the
\* same model whose manifest is not written.
C3_Witness ==
    \E k \in Keys :
        /\ indexFile[k].st = "ok"
        /\ indexFile[k].doc.versions # <<>>
        /\ \E v \in DOMAIN vdirs[k] : vdirs[k][v].manifest.st # "ok"

C5_VersionsAppendOnly ==
    \A k \in Keys :
        /\ \A i, j \in 1..Len(hist[k]) :
              i <= j => IsPrefix(hist[k][i].versions, hist[k][j].versions)
        /\ indexFile[k].st = "ok"
              => hist[k] # <<>> /\ indexFile[k].doc = hist[k][Len(hist[k])]

\* C5 witness: an index document that was written three times.
C5_Witness == \E k \in Keys : Len(hist[k]) >= 3

\* C6: a publish with an explicit version whose slug already has an entry
\* in the index fails with VersionAlreadyExists at the version check and
\* leaves every file of the registry as it was.
C6_SecondExplicitPublishRefused ==
    [][\A t \in Threads :
        (/\ pc[t] = "read" /\ pc'[t] # "read"
         /\ loc[t].version # None
         /\ indexFile[Key(t)].st = "ok"
         /\ VersionSlug(loc[t].version) \in VersionsOf(indexFile[Key(t)].doc))
        => (/\ res'.status = "VersionAlreadyExists"
            /\ res'.version = VersionSlug(loc[t].version)
            /\ pc'[t] = "idle"
            /\ fsVars' = fsVars)]_vars

\* C6 witness: a publish was refused for a version that has an entry.
C6_Witness ==
    /\ res.status = "VersionAlreadyExists"
    /\ res.op = "publish"
    /\ indexFile[res.key].st = "ok"
    /\ res.version \in VersionsOf(indexFile[res.key].doc)

\* C7: when a publish returns normally, latest is its version if setLatest
\* was true or the index it replaced had no latest, and the replaced
\* index's latest otherwise; resolve("latest") returns that version.
C7_LatestAfterPublish ==
    [][\A t \in Threads :
        (pc[t] = "mirror" /\ pc'[t] = "idle")
        => LET k == Key(t)
               h == hist[k]
               previous == IF Len(h) >= 2 THEN h[Len(h) - 1].latest ELSE None
               expected == IF loc[t].set_latest \/ previous = None
                           THEN loc[t].resolved ELSE previous
               r == ResolveIn(indexFile', loc[t].stage, loc[t].name, LatestWord)
           IN  /\ res'.status = "ok"
               /\ res'.version = loc[t].resolved
               /\ indexFile'[k].st = "ok"
               /\ indexFile'[k].doc.latest = expected
               /\ r.status = "ok"
               /\ r.version = expected]_vars

\* C7 witness: a publish returned a version that is not the latest (it did
\* not ask for it and the model had a latest).
C7_Witness ==
    /\ res.status = "ok"
    /\ res.op = "publish"
    /\ indexFile[res.key].st = "ok"
    /\ indexFile[res.key].doc.latest # res.version
    /\ Resolve(res.key[1], PetName, LatestWord).version
            = indexFile[res.key].doc.versions[1].version

\* C8: when a publish fails between the version check and the index write,
\* index.json, LATEST and LATEST.json are as they were when it took the
\* lock, and of the version directories only its own was added.
C8_FailedPublishLeavesIndex ==
    [][\A t \in Threads :
        (pc[t] \in {"copy", "norm", "bundle", "manifest"} /\ pc'[t] = "idle")
        => LET k == Key(t)
               e == loc[t].entered
           IN  /\ res'.status # "ok"
               /\ indexFile'[k] = e.index
               /\ latestTxt'[k] = e.txt
               /\ latestJson'[k] = e.json
               /\ loc[t].resolved \notin VersionsOf(indexFile'[k].doc)
               /\ DOMAIN vdirs'[k] = DOMAIN e.dirs \cup {loc[t].resolved}
               /\ \A v \in DOMAIN e.dirs : vdirs'[k][v] = e.dirs[v]]_vars

\* C8 witness: a publish whose checkpoint could not be converted left a
\* version directory without archive, manifest or entry next to an index
\* that has entries, after another publish was interrupted by a write.
C8_Witness ==
    /\ res.status = "UnsupportedCheckpointFormat"
    /\ faults >= 1
    /\ vdirs[res.key][res.version].bundle.st = "absent"
    /\ res.version \in DOMAIN vdirs[res.key]
    /\ indexFile[res.key].st = "ok"
    /\ indexFile[res.key].doc.versions # <<>>
    /\ res.version \notin VersionsOf(indexFile[res.key].doc)

\* C9: every promote call with fromStage = toStage fails with
\* SameStagePromotion and changes no file of the registry, whatever state
\* the source index is in.
C9_SameStagePromotionRefused ==
    [][\A t \in Threads, n \in ModelNames, s \in Stages,
          v \in {LatestWord, FormatVersion(1)}, tv \in {None, ReqR1},
          sl \in BOOLEAN :
        PromoteCall(t, n, s, s, v, tv, sl)
        => (/\ res'.status = "SameStagePromotion"
            /\ res'.op = "promote"
            /\ pc'[t] = "idle"
            /\ fsVars' = fsVars
            /\ lock' = lock)]_vars

\* C9 witness: a same-stage promote was refused while index.json of that
\* stage was open for writing.
C9_Witness ==
    /\ res.status = "SameStagePromotion"
    /\ indexFile[res.key].st = "partial"

\* C10: every release entry that a promotion out of dev created has a
\* payload whose relative paths and sizes are those of the payload of the
\* dev version it names as its source.
C10_PromotedPayloadEqual ==
    \A n \in ModelNames :
        LET rel == KeyOf("release", n)
            dev == KeyOf("dev", n)
        IN  indexFile[rel].st = "ok"
            => \A i \in 1..Len(indexFile[rel].doc.versions) :
                 LET e == indexFile[rel].doc.versions[i]
                 IN  (e.source.type = "promotion" /\ e.source.fromStage = "dev")
                     => /\ e.source.sourceVersion \in DOMAIN vdirs[dev]
                        /\ WalkFileEntries(vdirs[rel][e.version].payload)
                             = WalkFileEntries(
                                 vdirs[dev][e.source.sourceVersion].payload)
                        /\ vdirs[rel][e.version].manifest.doc.files
                             = WalkFileEntries(
                                 vdirs[dev][e.source.sourceVersion].payload)

\* C10 witness: a promoted release version whose payload has a file in a
\* sub-directory, while another publish is under way.
C10_Witness ==
    \E n \in ModelNames :
        LET rel == KeyOf("release", n)
        IN  /\ indexFile[rel].st = "ok"
            /\ \E i \in 1..Len(indexFile[rel].doc.versions) :
                 LET e == indexFile[rel].doc.versions[i]
                 IN  /\ e.source.type = "promotion"
                     /\ e.source.fromStage = "dev"
                     /\ \E f \in vdirs[rel][e.version].payload : f.dir # ""
            /\ \E t \in Threads : pc[t] \in {"copy", "norm", "bundle", "manifest"}

\* ------------------------------------------- promotion with a target version

TargetV200 == <<"v","0","2","0","0">>

\* The calls of SpecPromote: publishes of the directory source to dev and
\* promotions of a dev version (the latest one, or v0001 by name) into
\* release, with or without a target version.
PromoteVersions == {LatestWord, FormatVersion(1)}
PromoteTargets  == {None, TargetV200}

NextPromote ==
    \/ \E t \in Threads, sl \in BOOLEAN :
          PublishCall(t, PetName, "dev", "dirA", None, sl, FALSE)
    \/ \E t \in Threads, v \in PromoteVersions, tv \in PromoteTargets,
          sl \in BOOLEAN :
          PromoteCall(t, PetName, "dev", "release", v, tv, sl)
    \/ \E t \in Threads : Work(t)

SpecPromote == Init /\ [][NextPromote]_vars

\* C11: a promote with a target version T that returns normally, into a
\* destination that had no versions, leaves a destination index with
\* latest = T and one entry, versioned T, whose source is tagged promotion
\* and names the origin stage, a version of the origin index (its latest at
\* the time of the call when "latest" was asked for, the named version
\* otherwise) and that version's bundle path.
C11_PromoteIntoEmptyStage ==
    [][\A t \in Threads :
        /\ \A v \in PromoteVersions, tv \in PromoteTargets, sl \in BOOLEAN :
             (PromoteCall(t, PetName, "dev", "release", v, tv, sl)
                /\ pc'[t] = "lock")
             => loc'[t].meta.sourceVersion =
                    IF v = LatestWord
                    THEN indexFile[KeyOf("dev", PetName)].doc.latest
                    ELSE VersionSlug(v)
        /\ (/\ pc[t] = "mirror" /\ pc'[t] = "idle"
            /\ loc[t].op = "promote"
            /\ loc[t].version # None
            /\ loc[t].entered.index.doc.versions = <<>>)
           => LET k   == Key(t)
                  doc == indexFile'[k].doc
                  org == KeyOf(loc[t].meta.fromStage, loc[t].name)
              IN  /\ res'.status = "ok"
                  /\ indexFile'[k].st = "ok"
                  /\ doc.latest = VersionSlug(loc[t].version)
                  /\ Len(doc.versions) = 1
                  /\ doc.versions[1].version = VersionSlug(loc[t].version)
                  /\ doc.versions[1].source.type = "promotion"
                  /\ doc.versions[1].source.fromStage = "dev"
                  /\ doc.versions[1].source.sourceVersion = loc[t].meta.sourceVersion
                  /\ doc.versions[1].source.sourceVersion
                        \in VersionsOf(indexFile'[org].doc)
                  /\ doc.versions[1].source.sourceBundle
                        = <<"dev", org[2], <<"versions">>,
                            doc.versions[1].source.sourceVersion,
                            <<"bundle.tar.gz">> >>]_vars

\* C11 witness: release holds the single version v0200, promoted from
\* dev's v0002, which a publish had made dev's latest.
C11_Witness ==
    LET rel == indexFile[KeyOf("release", PetName)]
    IN  /\ res.op = "promote"
        /\ res.status = "ok"
        /\ res.version = TargetV200
        /\ rel.st = "ok"
        /\ rel.doc.latest = TargetV200
        /\ Len(rel.doc.versions) = 1
        /\ rel.doc.versions[1].source.sourceVersion = FormatVersion(2)

\* ------------------------------------------------ auto-allocated versions

\* The tokens v0001 .. v0005 as the spec writes them.
AutoTokens == << <<"v","0","0","0","1">>, <<"v","0","0","0","2">>,
                 <<"v","0","0","0","3">>, <<"v","0","0","0","4">>,
                 <<"v","0","0","0","5">> >>

\* C12: as long as every successful publish to a (stage, model) asked for
\* no explicit version (and none is between persisting its entry and
\* returning), the i-th entry of its index is the i-th of v0001, v0002,
\* v0003, ..., and the version the last of them returned is the token of
\* its rank.
C12_SequentialAutoVersions ==
    \A k \in Keys :
        (indexFile[k].st = "ok" /\ succ[k].explicit = 0 /\ ~Committing(k))
            => /\ \A i \in 1..Len(indexFile[k].doc.versions) :
                    indexFile[k].doc.versions[i].version = AutoTokens[i]
               /\ (res.status = "ok" /\ res.key = k)
                    => res.version = AutoTokens[succ[k].auto]

\* C12 witness: the third publish in a row returned v0003 and the index
\* lists v0001, v0002, v0003.
C12_Witness ==
    \E k \in Keys :
        /\ indexFile[k].st = "ok"
        /\ succ[k] = [auto |-> 3, explicit |-> 0]
        /\ [i \in 1..3 |-> indexFile[k].doc.versions[i].version]
              = << <<"v","0","0","0","1">>, <<"v","0","0","0","2">>,
                   <<"v","0","0","0","3">> >>
        /\ res.op = "publish"
        /\ res.status = "ok"
        /\ res.version = <<"v","0","0","0","3">>
        /\ faults = 0

\* ------------------------------------------------- _next_version on its own

\* Version tokens an index can hold: auto-allocated ones, an explicit one
\* that is no auto token, explicit ones that match the auto pattern with
\* fewer or more digits than the padding.
AllocTokens == { <<"v","0","0","0","1">>, <<"v","0","0","0","3">>,
                 <<"r","1">>, <<"v","1","2">>, <<"v","0","0","0","1","0">>,
                 <<"v","1",".","5">> }

RECURSIVE TokenLists(_)
TokenLists(n) ==
    IF n = 0 THEN {<<>>}
    ELSE LET shorter == TokenLists(n - 1)
         IN  shorter \cup
             {Append(l, v) : l \in {m \in shorter : Len(m) = n - 1},
                             v \in AllocTokens}

NoRepeat(l) == \A i, j \in 1..Len(l) : l[i] = l[j] => i = j

\* The indexes handed to _next_version: every list of up to MaxTokens
\* different tokens (version directories are never reused).
AllocIndexes ==
    {[DefaultIndex(PetName) EXCEPT
        !.versions = [i \in 1..Len(l) |-> VersionEntry(l[i], LocalMeta, FALSE)]] :
        l \in {m \in TokenLists(MaxTokens) : NoRepeat(m)}}

InitAlloc ==
    /\ EmptyRegistry
    /\ lock = "free"
    /\ pc = [t \in Threads |-> "idle"]
    /\ \E index \in AllocIndexes :
          loc = [t \in Threads |->
                    IF t = "t1" THEN [NoLoc EXCEPT !.index = index] ELSE NoLoc]
    /\ res = NoRes
    /\ calls = 0
    /\ faults = 0

\* _resolve_version(index, requested_version) applied to the index.
ResolveVersionCall(requested_version) ==
    /\ res = NoRes
    /\ res' = [op |-> "resolve_version", status |-> "ok",
               key |-> requested_version,
               version |-> ResolveVersion(loc["t1"].index, requested_version)]
    /\ UNCHANGED <<fsVars, lock, pc, loc, histVars, boundVars>>

NextAlloc == \E requested_version \in {None, ReqR1} :
                ResolveVersionCall(requested_version)

SpecAlloc == InitAlloc /\ [][NextAlloc]_vars

\* C13: the version allocated when none is requested is an auto token
\* whose number is greater than the number of every auto token of the
\* index and one more than the number of one of them, or v0001 if the
\* index holds none; after v0001 and v0003 it is v0004.
C13_NoBackfill ==
    (res.op = "resolve_version" /\ res.key = None)
        => LET index == loc["t1"].index
               autos == {AutoNumber(v) :
                          v \in {w \in VersionsOf(index) : MatchesAuto(w)}}
               r     == res.version
           IN  /\ MatchesAuto(r)
               /\ Len(r) >= 5
               /\ \A n \in autos : AutoNumber(r) > n
               /\ autos = {} => r = <<"v","0","0","0","1">>
               /\ autos # {} => (AutoNumber(r) - 1) \in autos
               /\ VersionsOf(index)
                     = { <<"v","0","0","0","1">>, <<"v","0","0","0","3">> }
                  => r = <<"v","0","0","0","4">>

\* C13 witness: with v0001 and v0003 in the index, in either order, v0004
\* was allocated.
C13_Witness ==
    /\ res.op = "resolve_version"
    /\ res.key = None
    /\ VersionsOf(loc["t1"].index)
          = { <<"v","0","0","0","1">>, <<"v","0","0","0","3">> }
    /\ res.version = <<"v","0","0","0","4">>

\* ------------------------------------------------------------ the readers

\* resolve, get_model and list_models take no lock and read the files as
\* they are; each is one read of index.json (list_models: of each one).
ReaderReturns(op, key, status, version, value) ==
    /\ calls < MaxCalls
    /\ calls' = calls + 1
    /\ res' = [op |-> op, status |-> status, key |-> key, version |-> version,
               value |-> value]
    /\ UNCHANGED <<fsVars, lock, pc, loc, histVars, faults>>

ResolveCall(stage, model_name, version) ==
    LET r == Resolve(stage, model_name, version)
    IN  ReaderReturns("resolve", KeyOf(stage, model_name), r.status,
                      r.version, r.entry)

GetModelCall(stage, model_name) ==
    LET r == GetModelIn(indexFile, stage, model_name)
    IN  ReaderReturns("get_model", KeyOf(stage, model_name), r.status,
                      <<>>, r.index)

ListModelsCall(stage) ==
    LET r == ListModelsIn(indexFile, vdirs, stage)
    IN  ReaderReturns("list_models", <<stage, <<>> >>, r.status, <<>>, r.models)

\* The calls of SpecRead: publishes of two models with no explicit version
\* (some interrupted), publishes of a source path that does not exist, and
\* the three readers at any moment.
ReadNames    == {PetName, OtherName}
ReadVersions == {LatestWord, FormatVersion(1), FormatVersion(2)}

NextRead ==
    \/ \E t \in Threads, n \in ReadNames, s \in Stages :
          PublishCall(t, n, s, "dirA", None, TRUE, FALSE)
    \/ \E t \in Threads, s \in Stages, v \in SpecVersions :
          PublishCall(t, PetName, s, "missing", v, TRUE, FALSE)
    \/ \E s \in Stages, n \in ReadNames, v \in ReadVersions :
          ResolveCall(s, n, v)
    \/ \E s \in Stages, n \in ReadNames : GetModelCall(s, n)
    \/ \E s \in Stages : ListModelsCall(s)
    \/ \E t \in Threads : Step(t)

SpecRead == Init /\ [][NextRead]_vars

\* A step of one of the readers (the other calls move a thread).
ReaderStep == calls' = calls + 1 /\ pc' = pc

\* The version directories of a model that have no entry in its index.
Orphans(k) == DOMAIN vdirs[k] \ VersionsOf(indexFile[k].doc)

\* C14: while index.json is not being rewritten, resolve of a version
\* whose directory exists without an index entry fails with
\* VersionNotFound (NoVersionsFound when the index has no entries), and
\* what get_model and list_models return holds, counts and points to index
\* entries only, never such a directory.
C14_ReadersTrustIndexOnly ==
    [][\A s \in Stages, n \in ReadNames :
        LET k   == KeyOf(s, n)
            doc == indexFile[k].doc
        IN  (ReaderStep /\ indexFile[k].st # "partial")
            => /\ \A x \in ReadVersions :
                    (ResolveCall(s, n, x) /\ x \in Orphans(k))
                    => res'.status = IF doc.versions = <<>>
                                     THEN "NoVersionsFound"
                                     ELSE "VersionNotFound"
               /\ (GetModelCall(s, n) /\ res'.status = "ok")
                    => \A x \in Orphans(k) :
                          x \notin VersionsOf(res'.value[1])
               /\ (ListModelsCall(s) /\ res'.status = "ok")
                    => \A m \in res'.value :
                          m.slug = k[2]
                          => /\ m.versionCount = Len(doc.versions)
                             /\ m.latest \notin Orphans(k)]_vars

\* C14 witness: resolve of v0002 failed with VersionNotFound while an
\* interrupted publish had left the directory of v0002 behind.
C14_Witness ==
    /\ res.op = "resolve"
    /\ res.status = "VersionNotFound"
    /\ faults >= 1
    /\ FormatVersion(2) \in Orphans(res.key)
    /\ \A t \in Threads : pc[t] = "idle"

\* C15: on a (stage, model) without index.json, get_model and resolve fail
\* with NoVersionsFound, return nothing and leave every file as it was,
\* and the index read underneath yields the default index of that model:
\* latest null and no versions.
C15_NoVersionsFound ==
    [][\A s \in Stages, n \in ReadNames :
        (ReaderStep /\ indexFile[KeyOf(s, n)].st = "absent")
        => /\ ReadIndex(s, n).modelName = n
           /\ ReadIndex(s, n).latest = None
           /\ ReadIndex(s, n).versions = <<>>
           /\ (GetModelCall(s, n) \/ \E x \in ReadVersions : ResolveCall(s, n, x))
                => /\ res'.status = "NoVersionsFound"
                   /\ res'.value = <<>>
                   /\ res'.version = <<>>
                   /\ fsVars' = fsVars]_vars

\* C15 witness: get_model failed with NoVersionsFound on a model whose
\* directory exists (an interrupted publish left a version directory) but
\* holds no index.
C15_Witness ==
    /\ res.op = "get_model"
    /\ res.status = "NoVersionsFound"
    /\ indexFile[res.key].st = "absent"
    /\ DOMAIN vdirs[res.key] # {}
    /\ faults >= 1

\* C16: while no index.json of the stage is being rewritten, list_models
\* of a stage succeeds and returns one summary for every model directory
\* of that stage holding an index.json and for no other, each with the
\* index's latest and its number of entries; directories without index
\* and the other stage's models are not listed.
C16_ListModels ==
    [][\A s \in Stages :
        (/\ ReaderStep
         /\ ListModelsCall(s)
         /\ \A sl \in Slugs : indexFile[<<s, sl>>].st # "partial")
        => LET indexed == {sl \in Slugs : indexFile[<<s, sl>>].st = "ok"}
           IN  /\ res'.status = "ok"
               /\ {m.slug : m \in res'.value} = indexed
               /\ Cardinality(res'.value) = Cardinality(indexed)
               /\ \A m \in res'.value :
                    LET doc == indexFile[<<s, m.slug>>].doc
                    IN  /\ m.stage = s
                        /\ m.latest = doc.latest
                        /\ m.versionCount = Len(doc.versions)
                        /\ m.modelName = doc.modelName]_vars

\* C16 witness: list_models of a stage returned the one model that has an
\* index, while the directory of another model of that stage (left by an
\* interrupted first publish) has none and the other stage has no model.
C16_Witness ==
    /\ res.op = "list_models"
    /\ res.status = "ok"
    /\ Cardinality(res.value) = 1
    /\ \E m \in res.value : m.versionCount >= 1
    /\ \E sl \in Slugs :
          /\ indexFile[<<res.key[1], sl>>].st = "absent"
          /\ DOMAIN vdirs[<<res.key[1], sl>>] # {}
    /\ \A k \in Keys : k[1] # res.key[1] => ~ModelDirExists(indexFile, vdirs, k)

\* ----------------------------------------------------- _slugify on its own

\* The characters of the names: a letter in both cases, a blank, a tab,
\* the separators the pattern keeps, a dot and a character it removes (the
\* path separator).
NameChars == {"P", "p", " ", "\t", "-", "_", ".", "/"}

RECURSIVE NamesUpTo(_)
NamesUpTo(n) ==
    IF n = 0 THEN {<<>>}
    ELSE LET shorter == NamesUpTo(n - 1)
         IN  shorter \cup
             {Append(x, c) : x \in {y \in shorter : Len(y) = n - 1},
                             c \in NameChars}

SlugInputs == NamesUpTo(MaxNameLen)

InitSlug ==
    /\ EmptyRegistry
    /\ lock = "free"
    /\ pc = [t \in Threads |-> "idle"]
    /\ \E text \in SlugInputs :
          loc = [t \in Threads |->
                    IF t = "t1" THEN [NoLoc EXCEPT !.name = text] ELSE NoLoc]
    /\ res = NoRes
    /\ calls = 0
    /\ faults = 0

\* _model_slug(name) and _version_slug(name) applied to the name.
SlugCall(op, slug) ==
    /\ res = NoRes
    /\ res' = [op |-> op, status |-> "ok", key |-> loc["t1"].name,
               version |-> slug]
    /\ UNCHANGED <<fsVars, lock, pc, loc, histVars, boundVars>>

ModelSlugCall == SlugCall("model_slug", ModelSlug(loc["t1"].name))

VersionSlugCall == SlugCall("version_slug", VersionSlug(loc["t1"].name))

NextSlug == ModelSlugCall \/ VersionSlugCall

SpecSlug == InitSlug /\ [][NextSlug]_vars

\* Two names differ only in letter case or in whitespace: they have the
\* same length and, position by position, the same letter in either case
\* or a whitespace character each.
DifferInCaseOrWhitespaceOnly(x, y) ==
    /\ Len(x) = Len(y)
    /\ \A i \in 1..Len(x) :
          \/ LowerChar(x[i]) = LowerChar(y[i])
          \/ x[i] \in WhiteChars /\ y[i] \in WhiteChars

\* C17: the slug of a model name is a fixed point of slugify, and every
\* name that differs from it only in letter case or in whitespace has the
\* same slug.
C17_SlugifyInsensitive ==
    res.op = "model_slug"
        => /\ ModelSlug(res.version) = res.version
           /\ \A y \in SlugInputs :
                DifferInCaseOrWhitespaceOnly(res.key, y)
                    => ModelSlug(y) = res.version

\* --------------------------------------------- two names of one model

\* The calls of SpecNames: publishes with no explicit version to dev under
\* a name or under the same name in another case and with blanks around
\* it, and resolve and get_model under either.
AliasNames == {PetName, PetAlias}

NextNames ==
    \/ \E t \in Threads, n \in AliasNames, sl \in BOOLEAN :
          PublishCall(t, n, "dev", "dirA", None, sl, FALSE)
    \/ \E n \in AliasNames : ResolveCall("dev", n, LatestWord)
    \/ \E n \in AliasNames : GetModelCall("dev", n)
    \/ \E t \in Threads : Work(t)

SpecNames == Init /\ [][NextNames]_vars

\* C18: when a publish under one of two names with the same slug returns,
\* the index read under either name is the list it found with its entry
\* appended, its version continues the one sequence v0001, v0002, ..., and
\* latest, the same under either name, is what resolve returns; get_model
\* and resolve under one name return what they return under the other.
C18_OneEntryForBothNames ==
    [][/\ \A t \in Threads, n \in AliasNames :
            (pc[t] = "mirror" /\ pc'[t] = "idle")
            => LET after == ReadIndexIn(indexFile', loc[t].stage, n)
                   r     == ResolveIn(indexFile', loc[t].stage, n, LatestWord)
               IN  /\ Len(after.versions) = Len(loc[t].index.versions) + 1
                   /\ SubSeq(after.versions, 1, Len(loc[t].index.versions))
                         = loc[t].index.versions
                   /\ after.versions[Len(after.versions)].version = res'.version
                   /\ res'.version = AutoTokens[Len(after.versions)]
                   /\ after.latest = IF loc[t].set_latest
                                        \/ loc[t].index.latest = None
                                     THEN res'.version
                                     ELSE loc[t].index.latest
                   /\ r.status = "ok"
                   /\ r.version = after.latest
       /\ \A n \in AliasNames, m \in AliasNames :
            /\ (ReaderStep /\ GetModelCall("dev", n))
                  => /\ res'.status = GetModelIn(indexFile, "dev", m).status
                     /\ res'.value = GetModelIn(indexFile, "dev", m).index
            /\ (ReaderStep /\ ResolveCall("dev", n, LatestWord))
                  => /\ res'.status = Resolve("dev", m, LatestWord).status
                     /\ res'.version = Resolve("dev", m, LatestWord).version
                     /\ res'.value = Resolve("dev", m, LatestWord).entry]_vars

\* C18 witness: a publish under one name is persisting the second entry
\* of an index whose first entry was published under the other name.
C18_Witness ==
    \E t \in Threads :
        /\ pc[t] = "latest"
        /\ loc[t].name = PetName
        /\ indexFile[Key(t)].st = "ok"
        /\ indexFile[Key(t)].doc.modelName = PetAlias
        /\ [i \in 1..2 |-> indexFile[Key(t)].doc.versions[i].version]
              = << <<"v","0","0","0","1">>, <<"v","0","0","0","2">> >>

\* C19: a publish of a source path that does not exist fails with
\* SourceNotFound at once: the lock is not taken, no file or directory of
\* the registry changes, and the version the next publish would be
\* allocated is what it was.
C19_SourceNotFound ==
    [][\A t \in Threads, s \in Stages, v \in SpecVersions :
        PublishCall(t, PetName, s, "missing", v, TRUE, FALSE)
        => /\ res'.status = "SourceNotFound"
           /\ res'.op = "publish"
           /\ pc'[t] = "idle"
           /\ lock' = lock
           /\ fsVars' = fsVars
           /\ ModelDirExists(indexFile', vdirs', KeyOf(s, PetName))
                 = ModelDirExists(indexFile, vdirs, KeyOf(s, PetName))
           /\ indexFile[KeyOf(s, PetName)].st # "partial"
                 => NextVersion(ReadIndexIn(indexFile', s, PetName))
                       = NextVersion(ReadIndex(s, PetName))]_vars

\* C19 witness: the publish of a missing source path failed with
\* SourceNotFound on a model that has no directory, and nothing is there
\* afterwards.
C19_Witness ==
    /\ res.op = "publish"
    /\ res.status = "SourceNotFound"
    /\ ~ModelDirExists(indexFile, vdirs, res.key)
    /\ Quiet

\* ----------------------------------------- conversion without a checkpoint

\* The calls of SpecNormalize: publishes to dev that ask for the conversion
\* to the standard checkpoint, of a directory with model.pt and of one
\* without any .pth or .pt file, with or without an explicit version.
ConvertSources == {"dirA", "dirC"}

NextNormalize ==
    \/ \E t \in Threads, src \in ConvertSources, v \in SpecVersions :
          PublishCall(t, PetName, "dev", src, v, TRUE, TRUE)
    \/ \E t \in Threads : Work(t)

SpecNormalize == Init /\ [][NextNormalize]_vars

\* C20: a publish that asks for the conversion and whose payload holds no
\* .pth or .pt file ends at the conversion with CheckpointNotFound: its
\* version directory has neither bundle nor manifest, and index.json (so
\* the entries and latest), LATEST and LATEST.json are as they were when
\* it took the lock.
C20_CheckpointNotFound ==
    [][\A t \in Threads :
        (/\ pc[t] = "norm" /\ pc'[t] # "norm"
         /\ loc[t].convert
         /\ \A f \in ThisDir(t).payload : f.ext \notin {"pth", "pt"})
        => LET k == Key(t)
               e == loc[t].entered
           IN  /\ pc'[t] = "idle"
               /\ res'.status = "CheckpointNotFound"
               /\ lock' = "free"
               /\ vdirs'[k][loc[t].resolved].bundle.st = "absent"
               /\ vdirs'[k][loc[t].resolved].manifest.st = "absent"
               /\ indexFile'[k] = e.index
               /\ loc[t].resolved \notin VersionsOf(indexFile'[k].doc)
               /\ indexFile'[k].doc.latest = e.index.doc.latest
               /\ latestTxt'[k] = e.txt
               /\ latestJson'[k] = e.json]_vars

\* C20 witness: a publish failed with CheckpointNotFound next to an index
\* with an entry and a latest; its directory holds the copied file only.
C20_Witness ==
    /\ res.status = "CheckpointNotFound"
    /\ indexFile[res.key].st = "ok"
    /\ indexFile[res.key].doc.latest # None
    /\ res.version \in DOMAIN vdirs[res.key]
    /\ vdirs[res.key][res.version].payload = {LabelsJson}
    /\ vdirs[res.key][res.version].bundle.st = "absent"

\* ------------------------------------------------- manifest and bundle

\* The listing entry of the standardized checkpoint.
StandardEntry == CHOOSE e \in WalkFileEntries({StandardFile}) : TRUE

OpsSources == {"dirA", "fileB"}

NextOps ==
    \/ \E t \in Threads, n \in ReadNames, s \in Stages :
          PublishCall(t, n, s, "dirA", None, TRUE, FALSE)
    \/ \E t \in Threads, src \in OpsSources :
          PublishCall(t, PetName, "dev", src, ReqR1, FALSE, FALSE)
    \/ \E t \in Threads, fs \in Stages :
          \E ts \in Stages \ {fs} :
             PromoteCall(t, PetName, fs, ts, LatestWord, None, TRUE)
    \/ \E s \in Stages, n \in ReadNames : ResolveCall(s, n, LatestWord)
    \/ \E s \in Stages, n \in ReadNames : GetModelCall(s, n)
    \/ \E s \in Stages : ListModelsCall(s)
    \/ \E t \in Threads : Step(t)

SpecOps == Init /\ [][NextOps]_vars

\* C22: a version directory whose bundle.tar.gz and manifest.json are
\* completely written is still there after every step of every operation
\* (publish, promote, resolve, get_model, list_models), with the same
\* payload, bundle and manifest.
C22_PublishedVersionsImmutable ==
    [][vdirs' # vdirs
        => \A k \in Keys : \A v \in DOMAIN vdirs[k] :
              CompleteDir(k, v)
              => /\ v \in DOMAIN vdirs'[k]
                 /\ vdirs'[k][v] = vdirs[k][v]]_vars

\* C22 witness: the version directory the registry started with is as it
\* was after it was promoted into release and another version was
\* published next to it.
C22_Witness ==
    /\ res.op = "publish"
    /\ res.status = "ok"
    /\ res.key = SeedKey
    /\ res.version = FormatVersion(2)
    /\ vdirs[SeedKey][FormatVersion(1)] = SeedDir
    /\ \E v \in DOMAIN vdirs[KeyOf("release", PetName)] :
          /\ CompleteDir(KeyOf("release", PetName), v)
          /\ vdirs[KeyOf("release", PetName)][v].manifest.doc.source.type
                = "promotion"

\* ------------------------------------------------------ the remote client

\* FtpModelRegistryClient.get(stage, model, "latest") of
\* scripts/ftp_model_client.py, up to the downloads: three retrievals over
\* FTP at three different moments, none under the registry's lock.
\* _resolve_version: RETR /<stage>/<slug>/LATEST fails on a missing file,
\* and an empty text raises "LATEST pointer is empty".
ClientGetCall(t, stage, model_slug) ==
    /\ Takes(t)
    /\ calls < MaxCalls
    /\ calls' = calls + 1
    /\ LET k == <<stage, model_slug>>
       IN  IF latestTxt[k].st = "absent"
           THEN Finish(t, "get", k, "LatestMissing", <<>>)
           ELSE IF latestTxt[k].st = "partial"
           THEN Finish(t, "get", k, "LatestEmpty", <<>>)
           ELSE /\ pc' = [pc EXCEPT ![t] = "getm"]
                /\ loc' = [loc EXCEPT ![t] =
                      [NoLoc EXCEPT !.op = "get", !.stage = stage, !.key = k,
                                    !.resolved = latestTxt[k].latest]]
                /\ UNCHANGED res
    /\ UNCHANGED <<fsVars, lock, histVars, faults>>

\* What a retrieval of a file of a version directory gives.
Retrieved(k, version, part) ==
    IF version \in DOMAIN vdirs[k] THEN vdirs[k][version][part].st ELSE "absent"

\* _download_file of versions/<version>/manifest.json.
ClientFetchManifest(t) ==
    /\ pc[t] = "getm"
    /\ IF Retrieved(Key(t), loc[t].resolved, "manifest") = "ok"
       THEN /\ pc' = [pc EXCEPT ![t] = "getb"]
            /\ UNCHANGED <<loc, res>>
       ELSE Finish(t, "get", Key(t), "ManifestUnavailable", loc[t].resolved)
    /\ UNCHANGED <<fsVars, lock, histVars, boundVars>>

\* _download_file of versions/<version>/bundle.tar.gz, and the return.
ClientFetchBundle(t) ==
    /\ pc[t] = "getb"
    /\ Finish(t, "get", Key(t),
              IF Retrieved(Key(t), loc[t].resolved, "bundle") = "ok"
              THEN "ok" ELSE "BundleUnavailable",
              loc[t].resolved)
    /\ UNCHANGED <<fsVars, lock, histVars, boundVars>>

\* The calls of SpecWire: publishes to dev, with and without an explicit
\* version and the request to move latest, some interrupted, and clients
\* that get the latest version of either stage at any moment.
NextWire ==
    \/ \E t \in Threads, v \in SpecVersions, sl \in BOOLEAN :
          PublishCall(t, PetName, "dev", SpecSource(v), v, sl, SpecConvert(v))
    \/ \E t \in Threads, s \in Stages : ClientGetCall(t, s, SlugOf[PetName])
    \/ \E t \in Threads : ClientFetchManifest(t)
    \/ \E t \in Threads : ClientFetchBundle(t)
    \/ \E t \in Threads : Step(t)

SpecWire == Init /\ [][NextWire]_vars

\* C23: at every step, the token in a written LATEST names a version
\* directory whose manifest and bundle are complete and, when index.json
\* is complete, an entry of the index; and a client that read a token from
\* LATEST finds, whenever it fetches them afterwards, the manifest of that
\* version and then its bundle present and complete.
C23_WireContract ==
    [][/\ \A k \in Keys :
            latestTxt[k].st = "ok"
            => /\ CompleteDir(k, latestTxt[k].latest)
               /\ indexFile[k].st = "ok"
                    => latestTxt[k].latest \in VersionsOf(indexFile[k].doc)
       /\ \A t \in Threads :
            /\ (pc[t] = "getm" /\ pc'[t] # "getm")
                  => /\ pc'[t] = "getb"
                     /\ vdirs[Key(t)][loc[t].resolved].manifest.doc.version
                           = loc[t].resolved
            /\ (pc[t] = "getb" /\ pc'[t] # "getb")
                  => /\ res'.status = "ok"
                     /\ res'.version = loc[t].resolved
                     /\ CompleteDir(Key(t), loc[t].resolved)]_vars

\* C23 witness: a client got the version it had read from LATEST while a
\* publish, in flight during its downloads, has moved LATEST to the next
\* version.
C23_Witness ==
    /\ res.op = "get"
    /\ res.status = "ok"
    /\ latestTxt[res.key].st = "ok"
    /\ latestTxt[res.key].latest # res.version
    /\ CompleteDir(res.key, res.version)

\* ------------------------------------------------- the file-transfer server

\* scripts/run_ftp_server.py line 24: the permissions of the one account,
\* perm="elradfmwMT", over the registry root.
FtpPerm == {"e", "l", "r", "a", "d", "f", "m", "w", "M", "T"}

\* The permission the server asks for before it runs a command (RETR reads
\* a file, STOR writes one, DELE removes one, MKD makes a directory).
FtpCommands == {"RETR", "STOR", "DELE", "MKD"}

PermOf(cmd) ==
    CASE cmd = "RETR" -> "r"
      [] cmd = "STOR" -> "w"
      [] cmd = "DELE" -> "d"
      [] cmd = "MKD"  -> "m"

\* What a client stores, and the directory it makes.
ClientToken == <<"x">>

\* One command of a connected client on the files of a model directory:
\* RETR or STOR of LATEST, DELE of index.json, MKD of versions/x.  A
\* command the account has no permission for is refused and changes
\* nothing; so is DELE of a file that is not there.
FtpCommand(cmd, k) ==
    /\ calls < MaxCalls
    /\ calls' = calls + 1
    /\ LET allowed == PermOf(cmd) \in FtpPerm
           done(status) == res' = [op |-> "ftp", status |-> status, key |-> k,
                                   version |-> <<cmd>>]
       IN  CASE ~allowed ->
                  done("PermissionDenied") /\ UNCHANGED fsVars
             [] allowed /\ cmd = "RETR" ->
                  /\ done(IF latestTxt[k].st = "absent" THEN "NoSuchFile" ELSE "ok")
                  /\ UNCHANGED fsVars
             [] allowed /\ cmd = "STOR" ->
                  /\ latestTxt' = [latestTxt EXCEPT ![k] = OkPtr(ClientToken, <<>>)]
                  /\ done("ok")
                  /\ UNCHANGED <<indexFile, latestJson, vdirs>>
             [] allowed /\ cmd = "DELE" ->
                  /\ indexFile' = [indexFile EXCEPT ![k] = AbsentIndex]
                  /\ done(IF indexFile[k].st = "absent" THEN "NoSuchFile" ELSE "ok")
                  /\ UNCHANGED <<latestTxt, latestJson, vdirs>>
             [] allowed /\ cmd = "MKD" ->
                  /\ vdirs' = [vdirs EXCEPT ![k] =
                        IF ClientToken \in DOMAIN @ THEN @
                        ELSE (ClientToken :> VersionDir({})) @@ @]
                  /\ done(IF ClientToken \in DOMAIN vdirs[k]
                          THEN "DirectoryExists" ELSE "ok")
                  /\ UNCHANGED <<indexFile, latestTxt, latestJson>>
    /\ UNCHANGED <<lock, pc, loc, histVars, faults>>

\* The calls of SpecFtp: publishes to dev and the commands of a connected
\* client on the model directories.
NextFtp ==
    \/ \E t \in Threads, sl \in BOOLEAN :
          PublishCall(t, PetName, "dev", "dirA", None, sl, FALSE)
    \/ \E cmd \in FtpCommands, k \in Keys : FtpCommand(cmd, k)
    \/ \E t \in Threads : Work(t)

SpecFtp == Init /\ [][NextFtp]_vars

\* C24: no command of a connected FTP client creates, overwrites or
\* deletes a file or directory under the registry root.
C24_FtpReadOnly ==
    [][\A cmd \in FtpCommands, k \in Keys :
        FtpCommand(cmd, k) => fsVars' = fsVars]_vars

\* ------------------------------------------------------------- the lock

\* The thread is inside `with self._lock` of publish_from_local: between
\* its index read and the end of _write_index.
InCritical(t) ==
    pc[t] \in {"read", "copy", "norm", "bundle", "manifest", "index", "dump",
               "latest", "ptr", "mirror"}

\* C25: at most one publish of the registry instance is between its index
\* read and the end of its index write, whatever models and stages the
\* publishes under way target, and it is the one holding the lock.
C25_OnePublishAtATime ==
    /\ Cardinality({t \in Threads : InCritical(t)}) <= 1
    /\ \A t \in Threads : InCritical(t) => lock = t
    /\ (\A t \in Threads : ~InCritical(t)) => lock = "free"

\* C25 witness: a publish waits for the lock while a publish to another
\* model in the other stage is writing its bundle.
C25_Witness ==
    \E t \in Threads, u \in Threads :
        /\ pc[t] = "bundle"
        /\ pc[u] = "lock"
        /\ loc[t].key[1] # loc[u].key[1]
        /\ loc[t].key[2] # loc[u].key[2]

\* ------------------------------------------- readers during an index write

\* C26: whatever a publish to the same (stage, model) is doing, resolve,
\* get_model and list_models do not fail on index.json, and the index
\* get_model returns is a document that was completely written (the one
\* before or the one after the publish).
C26_ReadersSeeWholeIndex ==
    [][ReaderStep
        => /\ res'.status # "IndexCorrupt"
           /\ \A s \in Stages, n \in ReadNames :
                (GetModelCall(s, n) /\ res'.status = "ok")
                => res'.value[1] \in SeqRange(hist[KeyOf(s, n)])]_vars

\* ------------------------------------------------- the order of publishes

\* C27: the index a publish persists is the index as it was when the
\* publish acquired the lock (no other publish persisted in between) with
\* its own entry after all the entries of the publishes that had acquired
\* the lock before it; and a version allocated automatically has a number
\* greater than that of every v<digits> token of those earlier entries.
C27_OrderedByLockAcquisition ==
    [][\A t \in Threads :
        LET k      == Key(t)
            before == loc[t].entered.index.doc.versions
        IN  /\ (pc[t] = "index" /\ pc'[t] = "dump")
                 => indexFile[k] = loc[t].entered.index
            /\ (pc[t] = "dump" /\ pc'[t] = "latest")
                 => /\ Len(indexFile'[k].doc.versions) = Len(before) + 1
                    /\ SubSeq(indexFile'[k].doc.versions, 1, Len(before)) = before
                    /\ indexFile'[k].doc.versions[Len(before) + 1].version
                          = loc[t].resolved
                    /\ loc[t].version = None
                         => \A i \in 1..Len(before) :
                               MatchesAuto(before[i].version)
                               => AutoNumber(loc[t].resolved)
                                     > AutoNumber(before[i].version)]_vars

\* C27 witness: release lists v0200, promoted under that name, and after
\* it v0201, allocated for the promotion that took the lock second.
C27_Witness ==
    LET rel == indexFile[KeyOf("release", PetName)]
    IN  /\ rel.st = "ok"
        /\ [i \in 1..Len(rel.doc.versions) |-> rel.doc.versions[i].version]
              = <<TargetV200, <<"v","0","2","0","1">> >>
        /\ Quiet

\* ---------------------------------------------------- the pointer mirrors

\* A publish to k is inside _write_index (lines 97-121).
Writing(k) ==
    \E t \in Threads : loc[t].key = k /\ pc[t] \in {"dump", "latest", "ptr", "mirror"}

\* C28: whenever no index write of a (stage, model) is under way, LATEST
\* holds exactly the token of the index's latest, LATEST.json holds that
\* latest and the index entry whose version is latest; where the index
\* has no latest (no index was written), neither mirror file exists.
C28_MirrorsAgree ==
    \A k \in Keys :
        ~Writing(k)
        => LET doc == indexFile[k].doc
           IN  /\ indexFile[k].st # "partial"
               /\ doc.latest # None
                    => /\ latestTxt[k] = OkPtr(doc.latest, <<>>)
                       /\ latestJson[k].st = "ok"
                       /\ latestJson[k].latest = doc.latest
                       /\ latestJson[k].entry = FindEntry(doc, doc.latest)
                       /\ latestJson[k].entry # <<>>
               /\ doc.latest = None
                    => /\ latestTxt[k].st = "absent"
                       /\ latestJson[k].st = "absent"

\* C28 witness: after a publish that did not move latest returned, the
\* index has two entries and LATEST.json carries the first.
C28_Witness ==
    /\ res.status = "ok"
    /\ ~Writing(res.key)
    /\ Len(indexFile[res.key].doc.versions) = 2
    /\ indexFile[res.key].doc.latest # res.version
    /\ latestJson[res.key].entry = <<indexFile[res.key].doc.versions[1]>>
    /\ latestTxt[res.key].latest = indexFile[res.key].doc.versions[1].version

\* ------------------------------------------------------ where a call writes

\* The files of a model directory.
FilesOf(k) == <<indexFile[k], latestTxt[k], latestJson[k], vdirs[k]>>

\* C29: every step that changes index.json, LATEST, LATEST.json or a
\* version directory of a (stage, model) is a step of a publish or a
\* promote into that stage and that model's slug; the other models, the
\* same model in the other stage and, for a promote, the stage it reads
\* from are as they were.
C29_WritesOnlyOwnModelDir ==
    [][fsVars' # fsVars
        => \E t \in Threads :
              /\ pc'[t] # pc[t]
              /\ loc[t].op \in {"publish", "promote"}
              /\ loc[t].op = "promote" => loc[t].meta.fromStage # loc[t].stage
              /\ \A k \in Keys :
                    k # <<loc[t].stage, SlugOf[loc[t].name]>>
                    => /\ indexFile'[k] = indexFile[k]
                       /\ latestTxt'[k] = latestTxt[k]
                       /\ latestJson'[k] = latestJson[k]
                       /\ vdirs'[k] = vdirs[k]]_vars

\* C29 witness: after a promotion into release and a publish of another
\* model to dev, the model directory the registry started with is as it
\* was.
C29_Witness ==
    /\ res.op = "publish"
    /\ res.status = "ok"
    /\ res.key = KeyOf("dev", OtherName)
    /\ indexFile[KeyOf("release", PetName)].st = "ok"
    /\ indexFile[SeedKey] = OkIndex(SeedIndex)
    /\ latestTxt[SeedKey] = OkPtr(FormatVersion(1), <<>>)
    /\ vdirs[SeedKey] = (FormatVersion(1) :> SeedDir)

\* ------------------------------------------------------- path-safe slugs

\* C30: the slug of every name, as a model or as a version, is not empty,
\* holds only lower-case letters, digits, '_' and '-' (and '.' for a
\* version), begins and ends with none of '.', '-' and '_' unless it is
\* the fallback, holds no path separator, blank or upper-case letter, and
\* is neither "." nor "..".
C30_SlugIsPathSafe ==
    res.op \in {"model_slug", "version_slug"}
    => LET r        == res.version
           dots     == IF res.op = "version_slug" THEN {"."} ELSE {}
           fallback == IF res.op = "version_slug"
                       THEN <<"v","0","0","0","1">>
                       ELSE <<"m","o","d","e","l">>
       IN  /\ r # <<>>
           /\ \A i \in 1..Len(r) :
                 /\ r[i] \in SeqRange(LowerChars) \cup SeqRange(DigitChars)
                                \cup {"_", "-"} \cup dots
                 /\ r[i] \notin {"/", "\\", " ", "\t"} \cup SeqRange(UpperChars)
           /\ \/ r = fallback
              \/ /\ r[1] \notin {".", "-", "_"}
                 /\ r[Len(r)] \notin {".", "-", "_"}
           /\ r \notin {<<".">>, <<".", ".">>}

\* C30 witness: the version name "../" gives the fallback v0001.
C30_Witness ==
    /\ res.op = "version_slug"
    /\ res.key = <<".", ".", "/">>
    /\ res.version = <<"v","0","0","0","1">>

\* ------------------------------------- _build_torch_standard_payload on its own

\* What torch.load can return: an nn.Module, something that is neither a
\* module nor a dict (a list), or a dict.  A dict is a function from its
\* keys to its values; the values are named by what they are: "tensor",
\* "dict", "str", a task type, a number of classes ("n5") or "None".  The
\* key "#7" stands for a key that is not a string.
MsdKey == "model_state_dict"
RawKeys == {MsdKey, "task_type", "num_classes", "head.weight", "#7"}

RawValues(key) ==
    CASE key = MsdKey          -> {"dict", "tensor"}
      [] key = "task_type"     -> {"segmentation", "None"}
      [] key = "num_classes"   -> {"n5", "None"}
      [] key = "head.weight"   -> {"tensor", "str"}
      [] key = "#7"            -> {"tensor"}

EmptyDict == [key \in {} |-> ""]

RawDicts ==
    UNION { {d \in [present -> UNION {RawValues(key) : key \in RawKeys}] :
                \A key \in present : d[key] \in RawValues(key)} :
            present \in SUBSET RawKeys }

RawCheckpoints ==
    {[kind |-> "module", d |-> EmptyDict], [kind |-> "list", d |-> EmptyDict]}
        \cup {[kind |-> "dict", d |-> d] : d \in RawDicts}

\* The caller's torch_task_type (the empty string for None: the code tests
\* its truth), torch_num_classes and the name of the checkpoint file.
CallerTaskTypes  == {"", "detection"}
CallerNumClasses == {"None", "n3"}
SourceFileNames  == {"best_checkpoint.pth", "model.pt"}

IsStringKey(key) == key # "#7"

\* A test that does not look at the keys.
LooksLikeStateDictAnyKeys(data) ==
    /\ DOMAIN data # {}
    /\ \E key \in DOMAIN data : data[key] = "tensor"

\* _looks_like_state_dict of a dict (lines 241-248).
LooksLikeStateDict(data) ==
    /\ DOMAIN data # {}
    /\ \A key \in DOMAIN data : IsStringKey(key)
    /\ \E key \in DOMAIN data : data[key] = "tensor"

\* dict.setdefault, item assignment and dict.get.
SetDefault(d, key, value) == IF key \in DOMAIN d THEN d ELSE (key :> value) @@ d
SetItem(d, key, value) == (key :> value) @@ d
GetItem(d, key) == IF key \in DOMAIN d THEN d[key] ELSE "None"

NoEnvelope == [top |-> EmptyDict, nested |-> [from |-> "", map |-> EmptyDict]]

\* _build_torch_standard_payload (lines 268-307): the envelope, as its
\* top-level items (model_state_dict among them) and where the nested
\* parameter map comes from: the module's state_dict(), the container's
\* own field or the raw dict itself.  converted_at is left out.
BuildTorchStandardPayload(raw, source_file_name, task_type, num_classes) ==
    LET tt == IF task_type # "" THEN task_type ELSE "classification"
        container == /\ MsdKey \in DOMAIN raw.d
                     /\ raw.d[MsdKey] = "dict"
        supported ==
            \/ raw.kind = "module"
            \/ raw.kind = "dict" /\ (container \/ LooksLikeStateDict(raw.d))
        first ==
            IF raw.kind = "module"
            THEN (MsdKey :> "dict") @@ ("task_type" :> tt)
                    @@ ("num_classes" :> num_classes)
            ELSE LET base == IF container THEN raw.d ELSE (MsdKey :> "dict")
                     typed == SetDefault(base, "task_type", tt)
                 IN  IF num_classes # "None"
                     THEN SetItem(typed, "num_classes", num_classes)
                     ELSE typed
        counted ==
            IF num_classes # "None" /\ GetItem(first, "num_classes") = "None"
            THEN SetItem(first, "num_classes", num_classes)
            ELSE first
        stamped ==
            SetItem(SetItem(counted, "standard_format", "void_torch_checkpoint_v1"),
                    "source_file", source_file_name)
        nested ==
            IF raw.kind = "module" THEN [from |-> "state_dict", map |-> EmptyDict]
            ELSE IF container THEN [from |-> "reused", map |-> EmptyDict]
            ELSE [from |-> "wrapped", map |-> raw.d]
    IN  IF supported
        THEN [status |-> "ok", envelope |-> [top |-> stamped, nested |-> nested]]
        ELSE [status |-> "UnsupportedCheckpointFormat", envelope |-> NoEnvelope]

\* The inputs of one call.
InitStd ==
    /\ EmptyRegistry
    /\ lock = "free"
    /\ pc = [t \in Threads |-> "idle"]
    /\ loc = [t \in Threads |-> NoLoc]
    /\ \E raw \in RawCheckpoints, name \in SourceFileNames,
          task_type \in CallerTaskTypes, num_classes \in CallerNumClasses :
          res = [op |-> "input", status |-> "none", key |-> <<>>,
                 version |-> <<>>, raw |-> raw, source_file_name |-> name,
                 task_type |-> task_type, num_classes |-> num_classes]
    /\ calls = 0
    /\ faults = 0

StandardizeCall ==
    /\ res.op = "input"
    /\ LET r == BuildTorchStandardPayload(res.raw, res.source_file_name,
                                          res.task_type, res.num_classes)
       IN  res' = [res EXCEPT !.op = "standardize", !.status = r.status] @@
                  [envelope |-> r.envelope]
    /\ UNCHANGED <<fsVars, lock, pc, loc, histVars, boundVars>>

SpecStd == InitStd /\ [][StandardizeCall]_vars

\* C31: in every envelope the caller's task type, when one is supplied, is
\* the envelope's task type, and the caller's number of classes, when one
\* is supplied, is the envelope's; a value of the checkpoint container is
\* used when and only when the caller supplies none.
C31_CallerValuesTakePrecedence ==
    (res.op = "standardize" /\ res.status = "ok")
    => LET top == res.envelope.top
       IN  /\ res.task_type # "" => top["task_type"] = res.task_type
           /\ res.num_classes # "None" => top["num_classes"] = res.num_classes
           /\ (res.envelope.nested.from = "reused" /\ res.task_type = ""
                 /\ "task_type" \in DOMAIN res.raw.d)
                => top["task_type"] = res.raw.d["task_type"]
           /\ (res.envelope.nested.from = "reused" /\ res.num_classes = "None"
                 /\ "num_classes" \in DOMAIN res.raw.d)
                => top["num_classes"] = res.raw.d["num_classes"]

\* The items a container brings that standardization does not set.
OwnItems(d) == DOMAIN d \ {"task_type", "num_classes", "standard_format", "source_file"}

\* C32: a raw checkpoint mapping has exactly one outcome.  A container (a
\* mapping whose model_state_dict is itself a mapping) is passed through:
\* its own items are the envelope's and its nested map is reused.  A
\* mapping that is no container and is a bare parameter map (not empty,
\* every key a string, some value a tensor) becomes the envelope's nested
\* parameter map.  Every other mapping fails with
\* UnsupportedCheckpointFormat.  Every envelope carries the format tag
\* void_torch_checkpoint_v1 and the name of the file it came from.
C32_StandardizeClassifies ==
    (res.op = "standardize" /\ res.raw.kind = "dict")
    => LET d == res.raw.d
           container == MsdKey \in DOMAIN d /\ d[MsdKey] = "dict"
           bare == /\ DOMAIN d # {}
                   /\ \A key \in DOMAIN d : key # "#7"
                   /\ \E key \in DOMAIN d : d[key] = "tensor"
           env == res.envelope
       IN  /\ container
                => /\ res.status = "ok"
                   /\ env.nested.from = "reused"
                   /\ \A key \in OwnItems(d) : env.top[key] = d[key]
           /\ (~container /\ bare)
                => /\ res.status = "ok"
                   /\ env.nested = [from |-> "wrapped", map |-> d]
                   /\ env.top[MsdKey] = "dict"
           /\ (~container /\ ~bare)
                => /\ res.status = "UnsupportedCheckpointFormat"
                   /\ env = NoEnvelope
           /\ res.status = "ok"
                => /\ env.top["standard_format"] = "void_torch_checkpoint_v1"
                   /\ env.top["source_file"] = res.source_file_name

\* All three outcomes of a mapping have happened: this one is a mapping
\* with a tensor under a key that is no string, which fails.
C32_Witness ==
    /\ res.op = "standardize"
    /\ res.raw.kind = "dict"
    /\ DOMAIN res.raw.d = {"#7", "head.weight"}
    /\ res.raw.d["head.weight"] = "tensor"
    /\ res.status = "UnsupportedCheckpointFormat"

\* ------------------------------------------------------ publish_from_mlflow

\* Artifact paths of a run on the tracking server.
ModelPath == <<"m","o","d","e","l">>
BestCheckpointPt ==
    <<"b","e","s","t","_","c","h","e","c","k","p","o","i","n","t",".","p","t">>
NestedCheckpointPt ==
    <<"c","h","e","c","k","p","o","i","n","t","s","/">> \o BestCheckpointPt

\* The artifact paths the callers ask for: the default, the default with a
\* blank in front, a checkpoint file and a path of blanks.
RequestedPaths == {ModelPath, <<" ">> \o ModelPath, BestCheckpointPt, <<" ">>}

\* The loop of lines 353-357: strip every candidate, drop the empty ones
\* and those already kept.
RECURSIVE Dedupe(_, _)
Dedupe(candidates, deduped) ==
    IF candidates = <<>> THEN deduped
    ELSE LET normalized == Strip(Head(candidates), WhiteChars)
         IN  Dedupe(Tail(candidates),
                    IF /\ normalized # <<>>
                       /\ \A i \in 1..Len(deduped) : deduped[i] # normalized
                    THEN Append(deduped, normalized)
                    ELSE deduped)

\* Candidates that put the nested checkpoint before the top-level one.
MlflowArtifactCandidatesNestedFirst(artifact_path) ==
    Dedupe(IF artifact_path = ModelPath
           THEN <<artifact_path, NestedCheckpointPt, BestCheckpointPt>>
           ELSE <<artifact_path>>, <<>>)

\* _mlflow_artifact_candidates (lines 343-358).
MlflowArtifactCandidates(artifact_path) ==
    Dedupe(IF artifact_path = ModelPath
           THEN <<artifact_path, BestCheckpointPt, NestedCheckpointPt>>
           ELSE <<artifact_path>>, <<>>)

\* source_metadata of lines 500-506 (the tracking URI and the run id are
\* the same in every call and left out).
MlflowMeta(artifact_path, resolved_artifact_path) ==
    [type |-> "mlflow", fromStage |-> "", sourceVersion |-> <<>>,
     sourceBundle |-> <<>>, artifactPath |-> artifact_path,
     resolvedArtifactPath |-> resolved_artifact_path]

\* What download_artifact leaves in the temporary directory: the model
\* directory, or the checkpoint file.
Downloaded(candidate_path) ==
    IF candidate_path = ModelPath THEN "dirA" ELSE "filePt"

\* publish_from_mlflow, lines 468-472: before the first download.
MlflowPublishCall(t, model_name, stage, artifact_path, version, set_latest) ==
    /\ Takes(t)
    /\ calls < MaxCalls
    /\ calls' = calls + 1
    /\ pc' = [pc EXCEPT ![t] = "download"]
    /\ loc' = [loc EXCEPT ![t] =
            [NoLoc EXCEPT !.op = "mlflow", !.name = model_name,
                          !.stage = stage, !.key = KeyOf(stage, model_name),
                          !.version = version, !.set_latest = set_latest,
                          !.artifact_path = artifact_path]]
    /\ UNCHANGED <<fsVars, lock, res, histVars, faults>>

\* One turn of the loop of lines 474-485, or what follows it.  A download
\* succeeds or raises, as the tracking server decides.  After a success
\* publish_from_local starts (lines 490-511): its source exists.  When no
\* candidate is left, lines 487-493 raise FileNotFoundError.
DownloadAttempt(t) ==
    /\ pc[t] = "download"
    /\ LET candidate_paths == MlflowArtifactCandidates(loc[t].artifact_path)
           n == Len(loc[t].tried) + 1
       IN  IF n > Len(candidate_paths)
           THEN Finish(t, "mlflow", Key(t), "ArtifactNotFound", <<>>)
           ELSE \/ /\ pc' = [pc EXCEPT ![t] = "lock"]
                   /\ loc' = [loc EXCEPT
                           ![t].op = "publish",
                           ![t].src = LocalSource(Downloaded(candidate_paths[n])),
                           ![t].meta = MlflowMeta(loc[t].artifact_path,
                                                  candidate_paths[n])]
                   /\ UNCHANGED res
                \/ /\ loc' = [loc EXCEPT
                           ![t].tried = Append(@, candidate_paths[n])]
                   /\ UNCHANGED <<pc, res>>
    /\ UNCHANGED <<fsVars, lock, histVars, boundVars>>

NextMlflow ==
    \E t \in Threads :
        \/ \E artifact_path \in RequestedPaths :
              MlflowPublishCall(t, PetName, "dev", artifact_path, None, TRUE)
        \/ DownloadAttempt(t)
        \/ Work(t)

SpecMlflow == Init /\ [][NextMlflow]_vars

\* The candidate paths of a request, in the order the spec gives them.
OrderedCandidates(requested) ==
    LET path == Strip(requested, WhiteChars)
    IN  IF requested = ModelPath
        THEN <<ModelPath, BestCheckpointPt, NestedCheckpointPt>>
        ELSE IF path = <<>> THEN <<>> ELSE <<path>>

\* A publish from the tracking server that is past its downloads.
FromMlflow(t) == pc[t] # "idle" /\ loc[t].meta.type = "mlflow"

\* C33: the downloads that failed are the first candidates in their
\* order, the candidate published is the one right after them (no later
\* one is tried), the provenance of the entry holds the requested path as
\* artifactPath and that candidate as resolvedArtifactPath, and a call
\* that fails leaves every file of the registry as it was, fails with
\* ArtifactNotFound and has tried every candidate.
C33_FirstSuccessfulCandidate ==
    [][\A t \in Threads :
        LET candidates == OrderedCandidates(loc[t].artifact_path)
            entry == FindEntry(indexFile'[Key(t)].doc, loc[t].resolved)
        IN  /\ pc[t] = "download"
              => /\ IsPrefix(loc[t].tried, candidates)
                 /\ (fsVars' = fsVars \/ pc'[t] = "download")
            /\ (pc[t] = "download" /\ pc'[t] = "lock")
              => /\ loc'[t].tried = loc[t].tried
                 /\ loc'[t].meta.artifactPath = loc[t].artifact_path
                 /\ loc'[t].meta.resolvedArtifactPath
                        = candidates[Len(loc[t].tried) + 1]
            /\ (pc[t] = "download" /\ pc'[t] = "idle")
              => /\ res'.status = "ArtifactNotFound"
                 /\ loc[t].tried = candidates
                 /\ fsVars' = fsVars
            /\ (FromMlflow(t) /\ pc[t] = "index" /\ pc'[t] = "dump")
              => loc[t].meta = MlflowMeta(loc[t].artifact_path,
                                  candidates[Len(loc[t].tried) + 1])
            /\ (FromMlflow(t) /\ pc[t] = "dump" /\ pc'[t] # "dump")
              => /\ entry # <<>>
                 /\ entry[1].source = MlflowMeta(loc[t].artifact_path,
                                         candidates[Len(loc[t].tried) + 1])]_vars

\* A request for "model" whose first two downloads failed is published
\* from checkpoints/best_checkpoint.pt, and its entry says so.
C33_Witness ==
    \E t \in Threads :
        /\ FromMlflow(t)
        /\ pc[t] = "latest"
        /\ loc[t].tried = <<ModelPath, BestCheckpointPt>>
        /\ FindEntry(indexFile[Key(t)].doc, loc[t].resolved)
              = <<VersionEntry(loc[t].resolved,
                               MlflowMeta(ModelPath, NestedCheckpointPt), FALSE)>>

\* C34: whenever a publish that asked for no version holds the lock and is
\* about to resolve its version, no directory exists for the token that
\* auto-allocation returns, so the publish does not fail with
\* VersionAlreadyExists.
C34_AutoVersionIsFree ==
    \A t \in Threads :
        (/\ pc[t] = "read"
         /\ loc[t].op = "publish"
         /\ loc[t].version = None
         /\ IndexReadable(Key(t)))
        => ~VersionDirExists(vdirs[Key(t)],
                ResolveVersion(ReadIndex(loc[t].stage, loc[t].name), None))

\* ------------------------------------------- publishes under any token

\* The versions the callers ask for: none, a token of their own, the word
\* that resolve reads as "the latest version" and a token that looks like
\* an auto-allocated one.
TokenVersions == {None, ReqR1, LatestWord, FormatVersion(2)}

NextToken ==
    \E t \in Threads :
        \/ \E v \in TokenVersions, sl \in BOOLEAN :
              PublishCall(t, PetName, "dev", "dirA", v, sl, FALSE)
        \/ \E target_version \in {None, FormatVersion(1)} :
              PromoteCall(t, PetName, "dev", "release", LatestWord,
                          target_version, TRUE)
        \/ Step(t)

SpecToken == Init /\ [][NextToken]_vars

\* C35: every entry of a readable index is what resolve returns for the
\* entry's own token.
C35_EntryResolvesByOwnToken ==
    \A k \in Keys :
        (k = KeyOf("dev", PetName) /\ indexFile[k].st = "ok")
        => \A i \in 1..Len(indexFile[k].doc.versions) :
              LET e == indexFile[k].doc.versions[i]
                  r == Resolve("dev", PetName, e.version)
              IN  /\ r.status = "ok"
                  /\ r.version = e.version
                  /\ r.entry = <<e>>

\* ------------------------------------------------ the client's own slug

\* _slugify_model_name of scripts/ftp_model_client.py:
\* model_name.strip().lower().replace(" ", "-").
ClientSlugifyModelName(model_name) ==
    LET stripped == Strip(model_name, WhiteChars)
    IN  [i \in 1..Len(stripped) |->
            IF LowerChar(stripped[i]) = " " THEN "-"
            ELSE LowerChar(stripped[i])]

\* The first line of the client's get: the slug its remote paths use.
ClientSlugCall ==
    SlugCall("client_slug", ClientSlugifyModelName(loc["t1"].name))

SpecClientSlug == InitSlug /\ [][ClientSlugCall]_vars

\* C36: the slug the client derives from a model name is the slug the
\* registry derives from it, so both name the same /<stage>/<slug>/ tree.
C36_ClientSlugIsRegistrySlug ==
    res.op = "client_slug" => res.version = ModelSlug(res.key)

\* C37: no index holds two entries with the same version token.
C37_NoDuplicateTokens ==
    \A k \in Keys :
        \A i, j \in 1..Len(indexFile[k].doc.versions) :
            indexFile[k].doc.versions[i].version
                = indexFile[k].doc.versions[j].version => i = j

\* An index with an auto-allocated and an explicit entry after a second
\* publish under the explicit token was refused.
C37_Witness ==
    /\ res.op = "publish"
    /\ res.status = "VersionAlreadyExists"
    /\ res.version = FormatVersion(2)
    /\ indexFile[SeedKey].st = "ok"
    /\ [i \in 1..Len(indexFile[SeedKey].doc.versions) |->
            indexFile[SeedKey].doc.versions[i].version]
          = <<FormatVersion(1), FormatVersion(2)>>

\* C38: between two complete writes of an index its latest does not go
\* from a version back to null; no step removes a LATEST or a LATEST.json
\* file that exists; and in a readable index with at least one entry,
\* resolving "latest" does not fail with NoLatestVersion.
C38_LatestStaysSet ==
    [][\A s \in Stages :
        LET k == KeyOf(s, PetName)
        IN  /\ \A i, j \in 1..Len(hist'[k]) :
                  (i <= j /\ hist'[k][i].latest # None)
                  => hist'[k][j].latest # None
            /\ latestTxt[k].st # "absent" => latestTxt'[k].st # "absent"
            /\ latestJson[k].st # "absent" => latestJson'[k].st # "absent"
            /\ (indexFile'[k].st = "ok" /\ indexFile'[k].doc.versions # <<>>)
               => ResolveIn(indexFile', s, PetName, LatestWord).status
                     # "NoLatestVersion"]_vars

\* An index whose latest stayed where it was while a publish that did not
\* ask to move it added an entry and rewrote both pointer files.
C38_Witness ==
    /\ Quiet
    /\ res.op = "publish"
    /\ res.status = "ok"
    /\ Len(hist[SeedKey]) = 2
    /\ indexFile[SeedKey].doc.latest = FormatVersion(1)
    /\ Len(indexFile[SeedKey].doc.versions) = 2
    /\ latestTxt[SeedKey].st = "ok"
    /\ latestJson[SeedKey].st = "ok"

\* ------------------------------------------------------- fair scheduling

\* The threads of the process are scheduled fairly: a call that can take
\* its next step takes it.  Failures are not owed to anyone.
NextFair ==
    \E t \in Threads :
        \/ PublishCall(t, PetName, "dev", "dirA", None, TRUE, FALSE)
        \/ PublishCall(t, PetName, "dev", "dirC", None, TRUE, TRUE)
        \/ Step(t)

SpecFair ==
    /\ Init
    /\ [][NextFair]_vars
    /\ \A t \in Threads : WF_vars(Work(t))

====
